---- MODULE Spec2Model ----
(***************************************************************************)
(* FollowUp AI: the approval page, the data-request form, the reminder     *)
(* list and the task-occurrence table, as state machines.                  *)
(*                                                                         *)
(* The browser pages talk to the database through single-statement         *)
(* requests; every await in a handler is a step boundary here, so two      *)
(* sessions (or two handler invocations of one session) interleave at      *)
(* exactly the points where the code yields.                               *)
(***************************************************************************)
EXTENDS Integers, Sequences, FiniteSets, TLC

NULL == "null"

\* ------------------------------------------------------------------------
\* Bounds of the model
\* ------------------------------------------------------------------------

\* handler invocations (approve / reject clicks) recorded in one behaviour
MaxCalls == 2

\* the largest max_retries a reminder is scheduled with
MaxRetriesCap == 3

\* the last day of the calendar the occurrence sweeps run over
MaxDate == 3

\* submissions of the create-request form recorded in one behaviour
MaxCreates == 3

\* templates stored in one behaviour
MaxTemplates == 2

\* the last day the calendar generator runs on (day 40 is 2024-02-09)
MaxGenDay == 40
MaxClients == 2

\* loadTasks queries awaited at once
MaxQueries == 3

\* toggle clicks in one behaviour
MaxToggles == 2

\* ------------------------------------------------------------------------
\* Approvals page (src/src/pages/Approvals.tsx) and the approvals table
\* ------------------------------------------------------------------------

Sessions == {"s1", "s2"}
ApprovalIds == {"a1", "a2"}

\* the signed-in user's id of each browser session
UserOf(s) == IF s = "s1" THEN "u1" ELSE "u2"

VARIABLES
    approvals_tbl,   \* the approvals table: id -> row
    profile,         \* useAuth().profile of each session (NULL: not loaded)
    approvals,       \* the page's approvals state: the rows of the last load
    processingId,    \* the page's processingId state
    calls,           \* the handler invocations so far, in click order
    loadsSent,       \* loadApprovals queries sent and not yet run, per session
    loadsBack,       \* loadApprovals results on their way back, per session
    now              \* the clock read by new Date()

apprVars == <<approvals_tbl, profile, approvals, processingId, calls,
              loadsSent, loadsBack, now>>

VARIABLES
    data_requests,              \* the data_requests table: id -> row
    request_checklist_items     \* the items stored under each request: id -> row

reqVars == <<data_requests, request_checklist_items>>

VARIABLES
    reminders,       \* the reminders table: id -> row
    attempts,        \* dispatch attempts started, per reminder
    inFlight,        \* reminders whose dispatch call has not returned
    escalations      \* escalation events emitted, in order

remVars == <<reminders, attempts, inFlight, escalations>>

VARIABLES
    tasks,              \* the recurring tasks: id -> next_run_date
    task_occurrences,   \* the task_occurrences table, in insertion order
    sweeps,             \* each generator sweep's position
    today               \* the sweeps' evaluation date

occVars == <<tasks, task_occurrences, sweeps, today>>

VARIABLES
    createLog        \* the create-request form's submissions and their outcomes

formVars == <<createLog>>

VARIABLES
    templates,             \* the templates table, in insertion order
    tplForm                \* formData of the open CreateTemplateModal

tplVars == <<templates, tplForm>>

VARIABLES
    calcRule,              \* the recurrence rule handed to next_occurrence
    calcAfter,             \* the reference date of the last call
    calcResult             \* what the last call returned

calcVars == <<calcRule, calcAfter, calcResult>>

VARIABLES
    item,                  \* one checklist item of a sent request
    submitted_at,          \* the item's submitted_at column
    receivedInCycle,       \* the item was received since it was last requested
    itemAttempt,           \* the last transition attempted on the item, and its outcome
    itemReminders          \* the reminders scheduled for the item, one per request cycle

itemVars == <<item, submitted_at, receivedInCycle, itemAttempt, itemReminders>>

VARIABLES
    genTask,               \* the recurring task: its rule, SLA days and next_run_date
    genOccurrences,        \* the occurrences generated for the task
    genToday               \* the generator's evaluation date

genVars == <<genTask, genOccurrences, genToday>>

VARIABLES
    users,                 \* the users table: id -> organization_id and role
    lastRead               \* the last row a SELECT returned, and to whom

rlsVars == <<users, lastRead>>

VARIABLES
    session,               \* the signed-in profile's role (NULL: signed out)
    location,              \* location.pathname
    blocked                \* the path the last refused navigation asked for

navVars == <<session, location, blocked>>

VARIABLES
    dashRequests,          \* the data_requests rows the dashboard query returns
    dashToday,             \* the current date
    stats,                 \* the Dashboard's stats state
    dashLoaded             \* loadStats has set the stats

dashVars == <<dashRequests, dashToday, stats, dashLoaded>>

VARIABLES
    authUsers,             \* ids of the accounts in auth.users
    userRows,              \* the users table seen by client creation, id -> row
    client_folders,        \* the client_folders rows, in insertion order
    creator,               \* the profile of the signed-in team user
    authUid,               \* auth.uid() of the Supabase client
    deployment,            \* whether signUp returns a session, whether sign-up inserts a users row
    clientResult           \* what the last handleCreateClient ended with

clientVars == <<authUsers, userRows, client_folders, creator, authUid, deployment, clientResult>>

VARIABLES
    tasksProfile,          \* useAuth().profile on the Tasks page: none, without or with organization_id
    tasksMounted,          \* the Tasks component has run its first effect
    tasksFilter,           \* the Tasks page's filter state
    tasksLoading,          \* the Tasks page's loading state
    taskList,              \* the Tasks page's tasks state
    tasksQueries           \* the loadTasks queries awaited, each with its filter

tasksPageVars == <<tasksProfile, tasksMounted, tasksFilter, tasksLoading, taskList, tasksQueries>>

VARIABLES
    organizations,         \* the organizations table: id -> is_active
    orgShown,              \* the is_active each session's Organizations page displays, per row
    toggleCalls,           \* the toggle updates sent, in click order
    orgLoads               \* loadOrganizations calls started and not finished, per session

toggleVars == <<organizations, orgShown, toggleCalls, orgLoads>>

\* what each part's steps leave alone: the other parts
apprOthers == <<reqVars, remVars, occVars, formVars, tplVars, calcVars,
                itemVars, genVars, rlsVars, navVars, dashVars, clientVars,
                tasksPageVars, toggleVars>>
reqOthers == <<apprVars, remVars, occVars, formVars, tplVars, calcVars,
               itemVars, genVars, rlsVars, navVars, dashVars, clientVars,
               tasksPageVars, toggleVars>>
remOthers == <<apprVars, reqVars, occVars, formVars, tplVars, calcVars,
               itemVars, genVars, rlsVars, navVars, dashVars, clientVars,
               tasksPageVars, toggleVars>>
occOthers == <<apprVars, reqVars, remVars, formVars, tplVars, calcVars,
               itemVars, genVars, rlsVars, navVars, dashVars, clientVars,
               tasksPageVars, toggleVars>>
formOthers == <<apprVars, remVars, occVars, tplVars, calcVars, itemVars,
                genVars, rlsVars, navVars, dashVars, clientVars,
                tasksPageVars, toggleVars>>
tplOthers == <<apprVars, reqVars, remVars, occVars, formVars, calcVars,
               itemVars, genVars, rlsVars, navVars, dashVars, clientVars,
               tasksPageVars, toggleVars>>
calcOthers == <<apprVars, reqVars, remVars, occVars, formVars, tplVars,
                itemVars, genVars, rlsVars, navVars, dashVars, clientVars,
                tasksPageVars, toggleVars>>
itemOthers == <<apprVars, reqVars, remVars, occVars, formVars, tplVars,
                calcVars, genVars, rlsVars, navVars, dashVars, clientVars,
                tasksPageVars, toggleVars>>
genOthers == <<apprVars, reqVars, remVars, occVars, formVars, tplVars,
               calcVars, itemVars, rlsVars, navVars, dashVars, clientVars,
               tasksPageVars, toggleVars>>
rlsOthers == <<apprVars, reqVars, remVars, occVars, formVars, tplVars,
               calcVars, itemVars, genVars, navVars, dashVars, clientVars,
               tasksPageVars, toggleVars>>
navOthers == <<apprVars, reqVars, remVars, occVars, formVars, tplVars,
               calcVars, itemVars, genVars, rlsVars, dashVars, clientVars,
               tasksPageVars, toggleVars>>
dashOthers == <<apprVars, reqVars, remVars, occVars, formVars, tplVars,
                calcVars, itemVars, genVars, rlsVars, navVars, clientVars,
                tasksPageVars, toggleVars>>
clientOthers == <<apprVars, reqVars, remVars, occVars, formVars, tplVars,
                  calcVars, itemVars, genVars, rlsVars, navVars, dashVars,
                  tasksPageVars, toggleVars>>
tasksPageOthers == <<apprVars, reqVars, remVars, occVars, formVars, tplVars,
                     calcVars, itemVars, genVars, rlsVars, navVars, dashVars,
                     clientVars, toggleVars>>
toggleOthers == <<apprVars, reqVars, remVars, occVars, formVars, tplVars,
                  calcVars, itemVars, genVars, rlsVars, navVars, dashVars,
                  clientVars, tasksPageVars>>

\* new Date().toISOString(): the clock's reading as a string
toISOString(t) == ToString(t)

\* A row as the schema creates it: action, reviewed_at and reviewer_id have
\* no default, so they start NULL (pending).
PendingRow == [action |-> NULL, remarks |-> NULL,
               reviewed_at |-> NULL, reviewer_id |-> NULL]

\* .from('approvals').update(patch).eq('id', id): one UPDATE statement; the
\* columns named by the patch are overwritten, the others kept. There is no
\* condition on the row's current action.
UpdateApprovals(tbl, id, patch) ==
    [tbl EXCEPT ![id] =
        [col \in DOMAIN tbl[id] |->
            IF col \in DOMAIN patch THEN patch[col] ELSE tbl[id][col]]]

\* handleApprove's update without reviewer_id
ApprovePatchNoReviewer(reviewer, t) ==
    [action |-> "approved", reviewed_at |-> t]

\* the object handleApprove passes to update()
ApprovePatch(reviewer, t) ==
    [action |-> "approved", reviewed_at |-> t, reviewer_id |-> reviewer]

\* the object handleReject passes to update()
RejectPatch(reviewer, t, rejectionRemarks) ==
    [action |-> "rejected", remarks |-> rejectionRemarks,
     reviewed_at |-> t, reviewer_id |-> reviewer]

\* .select('*') ... .is('action', null): the rows the default filter
\* ('pending') loads
PendingIds(tbl) == {id \in ApprovalIds : tbl[id].action = NULL}

\* isPending && the button is not disabled: the Approve and Reject buttons
\* of row id can be clicked in session s
ButtonEnabled(s, id) ==
    /\ id \in approvals[s]
    /\ processingId[s] # id

\* handleApprove(id) up to its await: the click sets processingId and sends
\* the update.
handleApprove(s, id) ==
    /\ profile[s] # NULL
    /\ ButtonEnabled(s, id)
    /\ Len(calls) < MaxCalls
    /\ processingId' = [processingId EXCEPT ![s] = id]
    /\ calls' = Append(calls,
           [sess |-> s, kind |-> "approve", id |-> id, remarks |-> NULL,
            patch |-> ApprovePatch(UserOf(s), toISOString(now)),
            pendingAtIssue |-> approvals_tbl[id].action = NULL,
            phase |-> "sent", result |-> "none"])
    /\ now' = now + 1
    /\ UNCHANGED <<approvals_tbl, profile, approvals, loadsSent, loadsBack>>
    /\ UNCHANGED apprOthers

\* handleReject without its "if (!rejectionRemarks) return"
RejectCallNoCheck(s, id, rejectionRemarks, t, wasPending) ==
    [sess |-> s, kind |-> "reject", id |-> id,
     remarks |-> rejectionRemarks,
     patch |-> RejectPatch(UserOf(s), t, rejectionRemarks),
     pendingAtIssue |-> wasPending,
     phase |-> "sent", result |-> "none"]

\* what handleReject does with the prompt's answer: no remarks, no request
RejectCall(s, id, rejectionRemarks, t, wasPending) ==
    IF rejectionRemarks = ""
    THEN [sess |-> s, kind |-> "reject", id |-> id,
          remarks |-> rejectionRemarks, patch |-> << >>,
          pendingAtIssue |-> wasPending,
          phase |-> "done", result |-> "returned"]
    ELSE [sess |-> s, kind |-> "reject", id |-> id,
          remarks |-> rejectionRemarks,
          patch |-> RejectPatch(UserOf(s), t, rejectionRemarks),
          pendingAtIssue |-> wasPending,
          phase |-> "sent", result |-> "none"]

\* handleReject(id) up to its await. The prompt's answer is "" when the
\* user leaves it empty or cancels it (prompt returns null): both are falsy.
handleReject(s, id, rejectionRemarks) ==
    /\ profile[s] # NULL
    /\ ButtonEnabled(s, id)
    /\ Len(calls) < MaxCalls
    /\ LET c == RejectCall(s, id, rejectionRemarks, toISOString(now),
                           approvals_tbl[id].action = NULL)
       IN /\ calls' = Append(calls, c)
          /\ processingId' = IF c.phase = "sent"
                             THEN [processingId EXCEPT ![s] = id]
                             ELSE processingId
    /\ now' = now + 1
    /\ UNCHANGED <<approvals_tbl, profile, approvals, loadsSent, loadsBack>>
    /\ UNCHANGED apprOthers

\* The database runs the UPDATE of call i, or the request fails (network,
\* policy): supabase then resolves with an error and the row is untouched.
DbUpdate(i, fails) ==
    /\ calls[i].phase = "sent"
    /\ approvals_tbl' = IF fails THEN approvals_tbl
                        ELSE UpdateApprovals(approvals_tbl, calls[i].id,
                                             calls[i].patch)
    /\ calls' = [calls EXCEPT ![i].phase = "replied",
                              ![i].result = IF fails THEN "db_error" ELSE "ok"]
    /\ UNCHANGED <<profile, approvals, processingId, loadsSent, loadsBack, now>>
    /\ UNCHANGED apprOthers

\* The rest of handleApprove / handleReject after the await: on an error
\* the catch block alerts; otherwise loadApprovals() is started (it is not
\* awaited); the finally block clears processingId whatever it holds.
HandleResponse(i) ==
    /\ calls[i].phase = "replied"
    /\ calls' = [calls EXCEPT ![i].phase = "done"]
    /\ loadsSent' = IF calls[i].result = "ok"
                    THEN [loadsSent EXCEPT ![calls[i].sess] = @ + 1]
                    ELSE loadsSent
    /\ processingId' = [processingId EXCEPT ![calls[i].sess] = NULL]
    /\ UNCHANGED <<approvals_tbl, profile, approvals, loadsBack, now>>
    /\ UNCHANGED apprOthers

\* loadApprovals: the database runs the query of session s; on an error the
\* catch block only logs and the list stays as it is.
LoadQuery(s, fails) ==
    /\ loadsSent[s] > 0
    /\ loadsSent' = [loadsSent EXCEPT ![s] = @ - 1]
    /\ loadsBack' = IF fails THEN loadsBack
                    ELSE [loadsBack EXCEPT ![s] = @ \cup {PendingIds(approvals_tbl)}]
    /\ UNCHANGED <<approvals_tbl, profile, approvals, processingId, calls, now>>
    /\ UNCHANGED apprOthers

\* loadApprovals after its await: setApprovals(data)
LoadDone(s, data) ==
    /\ data \in loadsBack[s]
    /\ loadsBack' = [loadsBack EXCEPT ![s] = @ \ {data}]
    /\ approvals' = [approvals EXCEPT ![s] = data]
    /\ UNCHANGED <<approvals_tbl, profile, processingId, calls, loadsSent, now>>
    /\ UNCHANGED apprOthers

NextApprovals ==
    \/ \E s \in Sessions, id \in ApprovalIds : handleApprove(s, id)
    \/ \E s \in Sessions, id \in ApprovalIds, r \in {"", "r1"} : handleReject(s, id, r)
    \/ \E i \in DOMAIN calls, fails \in BOOLEAN : DbUpdate(i, fails)
    \/ \E i \in DOMAIN calls : HandleResponse(i)
    \/ \E s \in Sessions, fails \in BOOLEAN : LoadQuery(s, fails)
    \/ \E s \in Sessions, data \in SUBSET ApprovalIds : LoadDone(s, data)

\* ------------------------------------------------------------------------
\* Data requests: the create-request form (Requests page), the
\* data_requests and request_checklist_items tables, and the request and
\* checklist-item state machines
\* ------------------------------------------------------------------------

RequestIds == {"r1"}
ItemIds == {"i1", "i2", "i3"}
RequestNumbers == {"REQ-000001-001"}

\* re-request cycles one checklist item may go through
MaxCycles == 1


\* formData's three channel checkboxes
Channels == [enable_email : BOOLEAN, enable_whatsapp : BOOLEAN,
             enable_voice : BOOLEAN]

AnyChannel(row) == row.enable_email \/ row.enable_whatsapp \/ row.enable_voice

\* the create-request insert with status 'sent' in place of 'draft'
NewRequestRowSent(ch, requestNumber) ==
    [status |-> "sent", request_number |-> requestNumber,
     enable_email |-> ch.enable_email,
     enable_whatsapp |-> ch.enable_whatsapp,
     enable_voice |-> ch.enable_voice,
     sent_at |-> NULL]

\* the row handleCreateRequest inserts: status 'draft', the channels as the
\* form has them (nothing requires one to be checked), sent_at not set
NewRequestRow(ch, requestNumber) ==
    [status |-> "draft", request_number |-> requestNumber,
     enable_email |-> ch.enable_email,
     enable_whatsapp |-> ch.enable_whatsapp,
     enable_voice |-> ch.enable_voice,
     sent_at |-> NULL]

\* request_number text UNIQUE NOT NULL
RequestNumberFree(tbl, requestNumber) ==
    \A r \in DOMAIN tbl : tbl[r].request_number # requestNumber

\* a new request_checklist_items row: status defaults to 'not_received'
NewItemRow(mandatory) ==
    [is_mandatory |-> mandatory, status |-> "not_received", cycle |-> 0]

\* handleCreateRequest: the insert succeeds (on an error, or a taken
\* request_number, the handler alerts and nothing is stored). The handler
\* inserts no checklist item.
handleCreateRequest(r, ch, requestNumber) ==
    /\ r \notin DOMAIN data_requests
    /\ RequestNumberFree(data_requests, requestNumber)
    /\ data_requests' = data_requests @@ (r :> NewRequestRow(ch, requestNumber))
    /\ request_checklist_items' = request_checklist_items @@ (r :> << >>)
    /\ UNCHANGED reqOthers

\* every mandatory item of the request is approved
AllMandatoryApproved(its) ==
    \A i \in DOMAIN its : its[i].is_mandatory => its[i].status = "approved"

\* the item has left not_received at least once
Progressed(it) == it.status # "not_received" \/ it.cycle > 0

\* the derivation with every item, mandatory or not, required for completion
DeriveStatusAllItems(status, its) ==
    IF status \in {"draft", "cancelled"} THEN status
    ELSE IF \A i \in DOMAIN its : its[i].status = "approved" THEN "completed"
    ELSE IF \E i \in DOMAIN its : its[i].status # "not_received" \/ its[i].cycle > 0
         THEN "in_progress"
    ELSE "sent"

\* the request's status, derived from its items (4.3): draft and cancelled
\* are kept; otherwise completed, in_progress or sent
DeriveStatus(status, its) ==
    IF status \in {"draft", "cancelled"} THEN status
    ELSE IF AllMandatoryApproved(its) THEN "completed"
    ELSE IF \E i \in DOMAIN its : Progressed(its[i]) THEN "in_progress"
    ELSE "sent"

\* the checklist-item transitions (4.2)
ItemStep(from, to) ==
    \/ from \in {"not_received", "re_requested"} /\ to = "received"
    \/ from = "received" /\ to = "under_review"
    \/ from \in {"received", "under_review"}
         /\ to \in {"approved", "rejected", "re_requested"}
    \/ from = "rejected" /\ to = "re_requested"
    \/ from = "re_requested" /\ to = "not_received"

\* a request accepts item transitions once sent, until it is closed
RequestOpen(tbl, r) == r \in DOMAIN tbl /\ tbl[r].status \in {"sent", "in_progress"}

\* a checklist item is instantiated under a draft request
AddChecklistItem(r, i, mandatory) ==
    /\ r \in DOMAIN data_requests
    /\ data_requests[r].status = "draft"
    /\ i \notin DOMAIN request_checklist_items[r]
    /\ request_checklist_items' =
           [request_checklist_items EXCEPT ![r] = @ @@ (i :> NewItemRow(mandatory))]
    /\ UNCHANGED data_requests
    /\ UNCHANGED reqOthers

\* send: only from draft, and only with a channel enabled
SendRequest(r, t) ==
    /\ r \in DOMAIN data_requests
    /\ data_requests[r].status = "draft"
    /\ AnyChannel(data_requests[r])
    /\ data_requests' =
           [data_requests EXCEPT ![r].sent_at = t,
                                 ![r].status =
                                     DeriveStatus("sent", request_checklist_items[r])]
    /\ UNCHANGED request_checklist_items
    /\ UNCHANGED reqOthers

\* one item transition, and the request's status recomputed
ItemTransition(r, i, to) ==
    /\ RequestOpen(data_requests, r)
    /\ i \in DOMAIN request_checklist_items[r]
    /\ ItemStep(request_checklist_items[r][i].status, to)
    /\ to = "re_requested" => request_checklist_items[r][i].cycle < MaxCycles
    /\ LET it == request_checklist_items[r][i]
           its == [request_checklist_items[r] EXCEPT
                      ![i].status = to,
                      ![i].cycle = IF to = "re_requested" THEN it.cycle + 1
                                   ELSE it.cycle]
       IN /\ request_checklist_items' = [request_checklist_items EXCEPT ![r] = its]
          /\ data_requests' =
                 [data_requests EXCEPT ![r].status =
                     DeriveStatus(data_requests[r].status, its)]
    /\ UNCHANGED reqOthers

\* cancel: the explicit terminal action on an open request
CancelRequest(r) ==
    /\ RequestOpen(data_requests, r)
    /\ data_requests' = [data_requests EXCEPT ![r].status = "cancelled"]
    /\ UNCHANGED request_checklist_items
    /\ UNCHANGED reqOthers

ItemStates == {"not_received", "received", "under_review", "approved",
               "rejected", "re_requested"}

NextRequests ==
    \/ \E r \in RequestIds, ch \in Channels, n \in RequestNumbers :
           handleCreateRequest(r, ch, n)
    \/ \E r \in RequestIds, i \in ItemIds, m \in BOOLEAN : AddChecklistItem(r, i, m)
    \/ \E r \in RequestIds : SendRequest(r, "t1")
    \/ \E r \in RequestIds, i \in ItemIds, to \in ItemStates : ItemTransition(r, i, to)
    \/ \E r \in RequestIds : CancelRequest(r)

\* ------------------------------------------------------------------------
\* The create-request form submitted repeatedly (src/unnamed/part_003):
\* generateRequestNumber and the insert under request_number UNIQUE
\* ------------------------------------------------------------------------

\* the ids the database gives to new data_requests rows, in order
NewRequestIds == <<"r1", "r2", "r3", "r4">>

\* the form as it opens (email checked) and with every channel unchecked
FormChannels ==
    {[enable_email |-> TRUE, enable_whatsapp |-> FALSE, enable_voice |-> FALSE],
     [enable_email |-> FALSE, enable_whatsapp |-> FALSE, enable_voice |-> FALSE]}

\* readings of Date.now(), low digits: the first two are consecutive
\* milliseconds, the third lies a multiple of 10^6 ms after the first
Millis == {5000000, 5000001, 6000000}

\* values of Math.floor(Math.random() * 1000)
Randoms == {7, 42}

\* n.toString().padStart(w, '0')
RECURSIVE padStart(_, _)
padStart(str, w) == IF Len(str) >= w THEN str ELSE padStart("0" \o str, w)

\* Date.now().toString().slice(-6): the last six digits
slice6(ms) == padStart(ToString(ms % 1000000), 6)

\* generateRequestNumber
generateRequestNumber(ms, rnd) ==
    "REQ-" \o slice6(ms) \o "-" \o padStart(ToString(rnd), 3)

\* the insert on a table without the UNIQUE constraint on request_number
RequestNumberFreeNoUnique(tbl, requestNumber) == TRUE

\* the insert of handleCreateRequest: accepted when request_number is free
InsertAccepted(tbl, requestNumber) == RequestNumberFree(tbl, requestNumber)

\* handleCreateRequest, the whole handler: without a profile it returns;
\* otherwise it generates the number and inserts; a refused insert is
\* caught and alerted, and nothing is stored
SubmitCreateRequest(r, loaded, ch, ms, rnd) ==
    /\ Len(createLog) < MaxCreates
    /\ Cardinality(DOMAIN data_requests) < Len(NewRequestIds)
    /\ r = NewRequestIds[Cardinality(DOMAIN data_requests) + 1]
    /\ LET requestNumber == generateRequestNumber(ms, rnd)
           entry(outcome) == [ms |-> ms, rnd |-> rnd,
                              request_number |-> requestNumber,
                              outcome |-> outcome]
       IN IF ~loaded
          THEN /\ createLog' = Append(createLog, entry("returned"))
               /\ UNCHANGED reqVars
          ELSE IF InsertAccepted(data_requests, requestNumber)
          THEN /\ data_requests' =
                      data_requests @@ (r :> NewRequestRow(ch, requestNumber))
               /\ request_checklist_items' = request_checklist_items @@ (r :> << >>)
               /\ createLog' = Append(createLog, entry("created"))
          ELSE /\ createLog' = Append(createLog, entry("alert"))
               /\ UNCHANGED reqVars
    /\ UNCHANGED formOthers

NextForm ==
    \E r \in {NewRequestIds[k] : k \in DOMAIN NewRequestIds},
       loaded \in BOOLEAN, ch \in FormChannels,
       ms \in Millis, rnd \in Randoms :
        SubmitCreateRequest(r, loaded, ch, ms, rnd)

\* ------------------------------------------------------------------------
\* The create-template form (src/unnamed/part_002, CreateTemplateModal) and
\* the templates table
\* ------------------------------------------------------------------------

\* the options of the Schedule Frequency select, "Select Frequency" aside
Frequencies == {"daily", "weekly", "monthly", "quarterly", "yearly", "custom"}

\* useState's initial formData: one_time, no frequency chosen
InitialTemplateForm == [task_type |-> "one_time", schedule_frequency |-> ""]

\* templateData: schedule_frequency is set only for a recurring template
\* whose frequency is not the empty option; otherwise the column is left
\* to its default, NULL
templateData(formData) ==
    [task_type |-> formData.task_type,
     schedule_frequency |->
         IF formData.task_type = "recurring" /\ formData.schedule_frequency # ""
         THEN formData.schedule_frequency
         ELSE NULL]

\* CHECK (task_type IN ...) and CHECK (schedule_frequency IN ...): a NULL
\* schedule_frequency passes
TemplateChecksPass(row) ==
    /\ row.task_type \in {"one_time", "recurring"}
    /\ row.schedule_frequency \in Frequencies \cup {NULL}

\* the Task Type select's onChange
setTaskType(t) ==
    /\ tplForm' = [tplForm EXCEPT !.task_type = t]
    /\ UNCHANGED templates
    /\ UNCHANGED tplOthers

\* the Schedule Frequency select's onChange; the select is rendered only
\* while task_type is recurring, and is not required
setScheduleFrequency(f) ==
    /\ tplForm.task_type = "recurring"
    /\ tplForm' = [tplForm EXCEPT !.schedule_frequency = f]
    /\ UNCHANGED templates
    /\ UNCHANGED tplOthers

\* CreateTemplateModal.handleSubmit: without a profile it alerts and
\* returns; a failed insert is alerted and the form stays; a stored
\* template closes the modal, and the next one opens with fresh formData
handleSubmit(hasProfile, fails) ==
    /\ Len(templates) < MaxTemplates
    /\ IF hasProfile /\ ~fails /\ TemplateChecksPass(templateData(tplForm))
       THEN /\ templates' = Append(templates, templateData(tplForm))
            /\ tplForm' = InitialTemplateForm
       ELSE UNCHANGED <<templates, tplForm>>
    /\ UNCHANGED tplOthers

NextTemplates ==
    \/ \E t \in {"one_time", "recurring"} : setTaskType(t)
    \/ \E f \in Frequencies \cup {""} : setScheduleFrequency(f)
    \/ \E hasProfile, fails \in BOOLEAN : handleSubmit(hasProfile, fails)

\* ------------------------------------------------------------------------
\* Calendar: dates are day numbers, day 1 being 2024-01-01
\* ------------------------------------------------------------------------

Years == {2024, 2025, 2026}

IsLeap(y) == (y % 4 = 0 /\ y % 100 # 0) \/ y % 400 = 0

DaysInMonth(y, m) ==
    IF m = 2 THEN (IF IsLeap(y) THEN 29 ELSE 28)
    ELSE IF m \in {4, 6, 9, 11} THEN 30 ELSE 31

DaysInYear(y) == IF IsLeap(y) THEN 366 ELSE 365

RECURSIVE DaysBeforeYear(_)
DaysBeforeYear(y) ==
    IF y <= 2024 THEN 0 ELSE DaysBeforeYear(y - 1) + DaysInYear(y - 1)

RECURSIVE DaysBeforeMonth(_, _)
DaysBeforeMonth(y, m) ==
    IF m <= 1 THEN 0 ELSE DaysBeforeMonth(y, m - 1) + DaysInMonth(y, m - 1)

\* the day number of y-m-d
DayNumber(y, m, d) == DaysBeforeYear(y) + DaysBeforeMonth(y, m) + d

\* the year, month and day of day number n
RECURSIVE YmdFrom(_, _, _)
YmdFrom(y, m, n) ==
    IF n <= DaysInMonth(y, m) THEN [y |-> y, m |-> m, d |-> n]
    ELSE IF m = 12 THEN YmdFrom(y + 1, 1, n - DaysInMonth(y, m))
    ELSE YmdFrom(y, m + 1, n - DaysInMonth(y, m))

Ymd(n) == YmdFrom(2024, 1, n)

\* date + n days
AddDays(date, n) == date + n

Min(S) == CHOOSE x \in S : \A z \in S : x <= z

\* ------------------------------------------------------------------------
\* Schedule calculator (4.1): next_occurrence(rule, after). The repository
\* stores the schedule fields (templates and tasks tables, part_010) and
\* has no calculator.
\* ------------------------------------------------------------------------

\* results: a date, None, or the InvalidScheduleError failure
DateResult(d) == [kind |-> "date", date |-> d]
None == [kind |-> "none", date |-> 0]
InvalidScheduleError == [kind |-> "InvalidScheduleError", date |-> 0]
NotCalled == [kind |-> "not_called", date |-> 0]

NoRule == [task_type |-> "one_time", frequency |-> NULL, day_rule |-> NULL,
           start_date |-> 1, has_end |-> FALSE, end_date |-> 0]

\* the day rules interpreted here: a fixed day of the month
DayOfRule(day_rule) == IF day_rule = "1st" THEN 1 ELSE 15

\* months between two occurrences of the month-based frequencies
MonthsPerStep(frequency) ==
    IF frequency = "monthly" THEN 1
    ELSE IF frequency = "quarterly" THEN 3 ELSE 12

\* the k-th month-based occurrence counted from the start date's month: the
\* rule's day (or the start date's), cut to the month's length
MonthCandidate(rule, k) ==
    LET s == Ymd(rule.start_date)
        total == (s.m - 1) + k * MonthsPerStep(rule.frequency)
        y == s.y + (total \div 12)
        m == (total % 12) + 1
        want == IF rule.day_rule = NULL THEN s.d ELSE DayOfRule(rule.day_rule)
        d == IF want <= DaysInMonth(y, m) THEN want ELSE DaysInMonth(y, m)
    IN [y |-> y, date |-> DayNumber(y, m, d)]

\* the first occurrence of the rule strictly after `after`, the end date
\* not yet considered (0: none within the calendar); evaluated is the
\* pluggable evaluator's answer for a custom rule (0: no date)
ComputedNext(rule, after, evaluated) ==
    IF rule.frequency = "daily"
    THEN (IF after < rule.start_date THEN rule.start_date ELSE after + 1)
    ELSE IF rule.frequency = "weekly"
    THEN (IF after < rule.start_date THEN rule.start_date
          ELSE rule.start_date + 7 * ((after - rule.start_date) \div 7 + 1))
    ELSE IF rule.frequency = "custom"
    THEN (IF evaluated > after THEN evaluated ELSE 0)
    ELSE LET c == {MonthCandidate(rule, k) : k \in 0..24}
             ok == {x.date : x \in {z \in c : /\ z.y \in Years
                                            /\ z.date > after
                                            /\ z.date >= rule.start_date}}
         IN IF ok = {} THEN 0 ELSE Min(ok)

\* next_occurrence with the end_date boundary left out
next_occurrenceNoEnd(rule, after, evaluated) ==
    IF rule.task_type # "recurring" \/ rule.frequency = NULL
    THEN InvalidScheduleError
    ELSE LET c == ComputedNext(rule, after, evaluated)
         IN IF c = 0 THEN None ELSE DateResult(c)

\* next_occurrence(rule, after): InvalidScheduleError for a non-recurring
\* rule or a start after the end; None when the computed date falls after
\* end_date; otherwise the computed date
next_occurrence(rule, after, evaluated) ==
    IF rule.task_type # "recurring" \/ rule.frequency = NULL
    THEN InvalidScheduleError
    ELSE IF rule.has_end /\ rule.start_date > rule.end_date
    THEN InvalidScheduleError
    ELSE LET c == ComputedNext(rule, after, evaluated)
         IN IF c = 0 THEN None
            ELSE IF rule.has_end /\ c > rule.end_date THEN None
            ELSE DateResult(c)

\* dates the calculator is asked about: 2024-01-01, 01-15, 01-31, 02-01,
\* 02-29, 03-15, 04-30, 12-31 and 2025-01-01
CalcDates ==
    {DayNumber(2024, 1, 1), DayNumber(2024, 1, 15), DayNumber(2024, 1, 31),
     DayNumber(2024, 2, 1), DayNumber(2024, 2, 29), DayNumber(2024, 3, 15),
     DayNumber(2024, 4, 30), DayNumber(2024, 12, 31), DayNumber(2025, 1, 1)}

\* the recurrence rules of the calculator's checks
CalcRules ==
    [task_type : {"one_time", "recurring"},
     frequency : Frequencies \cup {NULL},
     day_rule : {NULL, "1st", "15th"},
     start_date : {DayNumber(2024, 1, 1), DayNumber(2024, 1, 31)},
     has_end : BOOLEAN,
     end_date : {DayNumber(2024, 1, 15), DayNumber(2024, 3, 15),
                 DayNumber(2024, 12, 31)}]

\* one call of next_occurrence
CallNextOccurrence(after, evaluated) ==
    /\ calcAfter' = after
    /\ calcResult' = next_occurrence(calcRule, after, evaluated)
    /\ UNCHANGED calcRule
    /\ UNCHANGED calcOthers

NextCalculator ==
    \E after \in CalcDates, evaluated \in CalcDates \cup {0} :
        CallNextOccurrence(after, evaluated)

\* ------------------------------------------------------------------------
\* Reminders: the list page (src/unnamed/part_004), the reminders table
\* (src/unnamed/part_010) and the dispatch engine of 4.5. The repository
\* holds no dispatcher, and the table has no retry_count or max_retries
\* column although the page reads both; rows and dispatch follow 4.5.
\* ------------------------------------------------------------------------

ReminderIds == {"m1", "m2"}

\* the page's fallback: reminder.max_retries || 3
DefaultMaxRetries == 3

\* a new reminders row: status defaults to 'pending', sent_at is not set;
\* a fresh reminder starts its retries at 0
NewReminderRow(maxRetries) ==
    [status |-> "pending", sent_at |-> NULL,
     retry_count |-> 0, max_retries |-> maxRetries]

\* reminder.max_retries || 3
MaxRetriesShown(r) ==
    IF r.max_retries = 0 THEN DefaultMaxRetries ELSE r.max_retries

\* the Retry button with the retry_count test left out
RetryOfferedWheneverFailed(r) == r.status = "failed"

\* the list page renders the Retry button for this row
RetryOffered(r) ==
    r.status = "failed" /\ r.retry_count < MaxRetriesShown(r)

\* a dispatch failure that never gives up
OnDispatchFailureNoLimit(r) ==
    [r EXCEPT !.retry_count = @ + 1]

\* 4.5, on failure: retry_count + 1; below max_retries the reminder stays
\* pending (rescheduled), at max_retries it is failed
OnDispatchFailure(r) ==
    LET n == r.retry_count + 1 IN
    [r EXCEPT !.retry_count = n,
              !.status = IF n < r.max_retries THEN "pending" ELSE "failed"]

\* 4.5, on success: status sent, sent_at now
OnDispatchSent(r, t) == [r EXCEPT !.status = "sent", !.sent_at = t]

\* a reminder is scheduled (on send, or as the fresh cycle of a re-request)
ScheduleReminder(m, maxRetries) ==
    /\ m \notin DOMAIN reminders
    /\ reminders' = reminders @@ (m :> NewReminderRow(maxRetries))
    /\ attempts' = attempts @@ (m :> 0)
    /\ UNCHANGED <<inFlight, escalations>>
    /\ UNCHANGED remOthers

\* the sweep picks a due reminder: status re-checked, one dispatch at a time
\* per reminder; the attempt is recorded before the sender is called
StartDispatch(m) ==
    /\ m \in DOMAIN reminders
    /\ reminders[m].status = "pending"
    /\ m \notin inFlight
    /\ attempts' = [attempts EXCEPT ![m] = @ + 1]
    /\ inFlight' = inFlight \cup {m}
    /\ UNCHANGED <<reminders, escalations>>
    /\ UNCHANGED remOthers

\* the sender returned Sent; the outcome is written if the reminder is still
\* pending (conditional update on status)
DispatchSent(m, t) ==
    /\ m \in inFlight
    /\ inFlight' = inFlight \ {m}
    /\ reminders' = IF reminders[m].status = "pending"
                    THEN [reminders EXCEPT ![m] = OnDispatchSent(@, t)]
                    ELSE reminders
    /\ UNCHANGED <<attempts, escalations>>
    /\ UNCHANGED remOthers

\* the sender returned DispatchFailure; reaching failed emits the escalation
DispatchFailure(m) ==
    /\ m \in inFlight
    /\ inFlight' = inFlight \ {m}
    /\ IF reminders[m].status = "pending"
       THEN /\ reminders' = [reminders EXCEPT ![m] = OnDispatchFailure(@)]
            /\ escalations' = IF reminders'[m].status = "failed"
                              THEN Append(escalations, m)
                              ELSE escalations
       ELSE UNCHANGED <<reminders, escalations>>
    /\ UNCHANGED attempts
    /\ UNCHANGED remOthers

\* the related item or request closed: a pending reminder is cancelled
CancelReminder(m) ==
    /\ m \in DOMAIN reminders
    /\ reminders[m].status = "pending"
    /\ reminders' = [reminders EXCEPT ![m].status = "cancelled"]
    /\ UNCHANGED <<attempts, inFlight, escalations>>
    /\ UNCHANGED remOthers

NextReminders ==
    \/ \E m \in ReminderIds, n \in 1..MaxRetriesCap : ScheduleReminder(m, n)
    \/ \E m \in ReminderIds : StartDispatch(m)
    \/ \E m \in ReminderIds : DispatchSent(m, "t1")
    \/ \E m \in ReminderIds : DispatchFailure(m)
    \/ \E m \in ReminderIds : CancelReminder(m)

\* ------------------------------------------------------------------------
\* Task occurrences: the task_occurrences table (src/unnamed/part_010) and
\* the generator sweep of 4.4. The repository holds no generator; the
\* sweep follows 4.4, the insert follows the table's UNIQUE constraint.
\* ------------------------------------------------------------------------

TaskIds == {"t1", "t2"}
SweepIds == {"w1", "w2"}

\* templates.default_sla_days integer DEFAULT 7
DefaultSlaDays == 7

\* a new task_occurrences row: status defaults to 'pending'
NewOccurrenceRow(task, d) ==
    [task_id |-> task, occurrence_date |-> d,
     due_date |-> d + DefaultSlaDays, status |-> "pending"]

\* UNIQUE(task_id, occurrence_date)
UniqueViolation(tbl, row) ==
    \E k \in DOMAIN tbl :
        /\ tbl[k].task_id = row.task_id
        /\ tbl[k].occurrence_date = row.occurrence_date

\* the insert on a table without the UNIQUE constraint
InsertOccurrenceNoUnique(tbl, row) == Append(tbl, row)

\* INSERT INTO task_occurrences: refused when the pair is already stored
InsertOccurrence(tbl, row) ==
    IF UniqueViolation(tbl, row) THEN tbl ELSE Append(tbl, row)

IdleSweep == [pc |-> "idle", task |-> NULL, date |-> 0, result |-> "none"]

\* the evaluation date moves on
Tick ==
    /\ today < MaxDate
    /\ today' = today + 1
    /\ UNCHANGED <<tasks, task_occurrences, sweeps>>
    /\ UNCHANGED occOthers

\* a sweep finds a task with next_run_date <= today and reads the date
SweepRead(w, task) ==
    /\ sweeps[w].pc = "idle"
    /\ tasks[task] <= today
    /\ sweeps' = [sweeps EXCEPT ![w] = [pc |-> "insert", task |-> task,
                                        date |-> tasks[task],
                                        result |-> "none"]]
    /\ UNCHANGED <<tasks, task_occurrences, today>>
    /\ UNCHANGED occOthers

\* the sweep creates the occurrence for the date it read; an insert the
\* table refuses as a duplicate is a no-op for the sweep
SweepInsert(w) ==
    /\ sweeps[w].pc = "insert"
    /\ LET row == NewOccurrenceRow(sweeps[w].task, sweeps[w].date) IN
       /\ task_occurrences' = InsertOccurrence(task_occurrences, row)
       /\ sweeps' = [sweeps EXCEPT
              ![w].pc = "advance",
              ![w].result = IF task_occurrences' = task_occurrences
                            THEN "noop" ELSE "created"]
    /\ UNCHANGED <<tasks, today>>
    /\ UNCHANGED occOthers

\* the sweep advances next_run_date past the date it read (daily schedule),
\* unless another sweep already did
SweepAdvance(w) ==
    /\ sweeps[w].pc = "advance"
    /\ tasks' = IF tasks[sweeps[w].task] = sweeps[w].date
                THEN [tasks EXCEPT ![sweeps[w].task] = sweeps[w].date + 1]
                ELSE tasks
    /\ sweeps' = [sweeps EXCEPT ![w].pc = "idle"]
    /\ UNCHANGED <<task_occurrences, today>>
    /\ UNCHANGED occOthers

NextOccurrences ==
    \/ Tick
    \/ \E w \in SweepIds, task \in TaskIds : SweepRead(w, task)
    \/ \E w \in SweepIds : SweepInsert(w)
    \/ \E w \in SweepIds : SweepAdvance(w)

\* ------------------------------------------------------------------------
\* One checklist item and its reminder cycles (4.2, 4.5). The repository
\* stores the item's columns (request_checklist_items, part_010) and has
\* no code that changes an item's status.
\* ------------------------------------------------------------------------

NoAttempt == [from |-> "none", to |-> "none", result |-> "none"]

\* a transition table that accepts every move
ItemStepAny(from, to) == from # to

\* the transition table of 4.2, as the attempt handler consults it
ItemStepAllowed(from, to) == ItemStep(from, to)

\* the item after an accepted transition; a re-request opens a new cycle
MoveItem(it, to) ==
    [it EXCEPT !.status = to,
               !.cycle = IF to = "re_requested" THEN @ + 1 ELSE @]

\* a reminder that carries the previous cycle's retry_count over
CarriedReminder(prev) ==
    [status |-> "pending", sent_at |-> NULL,
     retry_count |-> prev.retry_count, max_retries |-> prev.max_retries]

\* the reminder of a new request cycle: a new reminder, not a retry
FreshReminder(prev) == NewReminderRow(prev.max_retries)

\* the item's reminders after an accepted transition: a re-request
\* schedules a fresh one; approval or rejection cancels a pending one
RemindersAfter(rems, to) ==
    LET last == rems[Len(rems)] IN
    IF to = "re_requested"
    THEN Append([rems EXCEPT ![Len(rems)].status =
                    IF @ = "pending" THEN "cancelled" ELSE @],
                FreshReminder(last))
    ELSE IF to \in {"approved", "rejected"} /\ last.status = "pending"
    THEN [rems EXCEPT ![Len(rems)].status = "cancelled"]
    ELSE rems

\* a transition is attempted on the item: one the table does not allow
\* fails with InvalidTransitionError and changes nothing
AttemptItemTransition(to, t) ==
    /\ to = "re_requested" => item.cycle < MaxCycles
    /\ IF ItemStepAllowed(item.status, to)
       THEN /\ item' = MoveItem(item, to)
            /\ submitted_at' = IF to = "received" THEN t
                               ELSE IF to = "re_requested" THEN NULL
                               ELSE submitted_at
            /\ receivedInCycle' = IF to = "received" THEN TRUE
                                  ELSE IF to = "re_requested" THEN FALSE
                                  ELSE receivedInCycle
            /\ itemReminders' = RemindersAfter(itemReminders, to)
            /\ itemAttempt' = [from |-> item.status, to |-> to, result |-> "ok"]
       ELSE /\ itemAttempt' = [from |-> item.status, to |-> to,
                               result |-> "InvalidTransitionError"]
            /\ UNCHANGED <<item, submitted_at, receivedInCycle, itemReminders>>
    /\ UNCHANGED itemOthers

\* the dispatch of the item's current reminder fails
ItemReminderFails ==
    /\ itemReminders[Len(itemReminders)].status = "pending"
    /\ itemReminders' =
           [itemReminders EXCEPT ![Len(itemReminders)] = OnDispatchFailure(@)]
    /\ UNCHANGED <<item, submitted_at, receivedInCycle, itemAttempt>>
    /\ UNCHANGED itemOthers

NextItem ==
    \/ \E to \in ItemStates : AttemptItemTransition(to, "t1")
    \/ ItemReminderFails

\* ------------------------------------------------------------------------
\* Occurrence generation over the calendar (4.4): occurrence_date is the
\* task's next_run_date, due_date is occurrence_date + SLA days, and
\* next_run_date advances through next_occurrence
\* ------------------------------------------------------------------------

\* the SLA days of the task's template: the form's default, or another
SlaChoices == {DefaultSlaDays, 3}

\* the recurring tasks generated for: monthly on the 1st from 2024-01-01;
\* weekly from 2024-01-01 until 2024-01-31; monthly from 2024-01-15
GenRules ==
    {[task_type |-> "recurring", frequency |-> "monthly", day_rule |-> "1st",
      start_date |-> DayNumber(2024, 1, 1), has_end |-> FALSE, end_date |-> 0],
     [task_type |-> "recurring", frequency |-> "weekly", day_rule |-> NULL,
      start_date |-> DayNumber(2024, 1, 1), has_end |-> TRUE,
      end_date |-> DayNumber(2024, 1, 31)],
     [task_type |-> "recurring", frequency |-> "monthly", day_rule |-> NULL,
      start_date |-> DayNumber(2024, 1, 15), has_end |-> FALSE, end_date |-> 0]}

\* an occurrence whose due date is the occurrence date itself
OccurrenceRowDueSameDay(task, d, sla) ==
    [task_id |-> task, occurrence_date |-> d, due_date |-> d,
     status |-> "pending"]

\* the occurrence of task for date d: due_date = occurrence_date + SLA days
OccurrenceRow(task, d, sla) ==
    [task_id |-> task, occurrence_date |-> d, due_date |-> AddDays(d, sla),
     status |-> "pending"]

\* the evaluation date moves on, whether or not the generator has run
GenTick ==
    /\ genToday < MaxGenDay
    /\ genToday' = genToday + 1
    /\ UNCHANGED <<genTask, genOccurrences>>
    /\ UNCHANGED genOthers

\* the generator finds the task due: it creates the occurrence for
\* next_run_date and advances next_run_date with the schedule calculator
Generate ==
    /\ genTask.has_next
    /\ genTask.next_run_date <= genToday
    /\ genOccurrences' =
           InsertOccurrence(genOccurrences,
               OccurrenceRow("t1", genTask.next_run_date, genTask.sla))
    /\ LET n == next_occurrence(genTask.rule, genTask.next_run_date, 0) IN
       genTask' = IF n.kind = "date"
                  THEN [genTask EXCEPT !.next_run_date = n.date]
                  ELSE [genTask EXCEPT !.has_next = FALSE]
    /\ UNCHANGED genToday
    /\ UNCHANGED genOthers

NextGenerator == GenTick \/ Generate

\* ------------------------------------------------------------------------
\* Row level security (src/unnamed/part_010): the policies on users,
\* templates, tasks, data_requests and documents, evaluated for auth.uid()
\* ------------------------------------------------------------------------

UserIds == {"u1", "u2"}
OrgIds == {"o1", "o2"}
Roles == {"super_admin", "admin", "manager", "team_member", "client"}

\* the organization each user was created in
PlacedOrg(u) == IF u = "u1" THEN "o1" ELSE "o2"

\* rows of the four data tables: one per table and organization, each
\* addressed to the client placed in that organization
DataTables == {"templates", "tasks", "data_requests", "documents"}
DataRows ==
    {[table |-> t, organization_id |-> PlacedOrg(u), client_id |-> u] :
        t \in DataTables, u \in UserIds}

NoRead == [user |-> "none", table |-> "none",
           organization_id |-> "none", client_id |-> "none"]

\* SELECT organization_id FROM users WHERE id = auth.uid()
OwnOrgs(tbl, uid) == {tbl[uid].organization_id}

\* SELECT organization_id FROM users WHERE id = auth.uid() AND role IN (...)
OwnOrgsWithRole(tbl, uid, roles) ==
    IF tbl[uid].role \in roles THEN {tbl[uid].organization_id} ELSE {}

ManagerRoles == {"super_admin", "admin", "manager"}
TeamRoles == {"super_admin", "admin", "manager", "team_member"}

\* the SELECT policies (with the FOR ALL policies, which also grant SELECT)
\* of each table, permissive policies being OR-ed
SelectAllowed(tbl, uid, row) ==
    IF row.table = "users"
    THEN row.organization_id \in OwnOrgs(tbl, uid)
    ELSE IF row.table = "templates"
    THEN \/ row.organization_id \in OwnOrgs(tbl, uid)
         \/ row.organization_id \in OwnOrgsWithRole(tbl, uid, ManagerRoles)
    ELSE IF row.table = "tasks"
    THEN \/ row.organization_id \in OwnOrgs(tbl, uid)
         \/ row.client_id = uid
         \/ row.organization_id \in OwnOrgsWithRole(tbl, uid, TeamRoles)
    ELSE \/ row.client_id = uid
         \/ row.organization_id \in OwnOrgsWithRole(tbl, uid, TeamRoles)

\* the UPDATE policies on users: "Users can update their own profile"
\* (USING and WITH CHECK id = auth.uid(), no column restricted) and "Admins
\* and managers can update client users" (old and new organization_id in
\* the actor's organization)
UpdateUserAllowed(tbl, uid, target, newRow) ==
    \/ target = uid
    \/ /\ tbl[target].organization_id \in OwnOrgsWithRole(tbl, uid, ManagerRoles)
       /\ newRow.organization_id \in OwnOrgsWithRole(tbl, uid, ManagerRoles)

\* uid updates a users row
UpdateUser(uid, target, newRow) ==
    /\ UpdateUserAllowed(users, uid, target, newRow)
    /\ users' = [users EXCEPT ![target] = newRow]
    /\ UNCHANGED lastRead
    /\ UNCHANGED rlsOthers

\* uid selects a row of a data table
SelectRow(uid, row) ==
    /\ SelectAllowed(users, uid, row)
    /\ lastRead' = [user |-> uid, table |-> row.table,
                    organization_id |-> row.organization_id,
                    client_id |-> row.client_id]
    /\ UNCHANGED users
    /\ UNCHANGED rlsOthers

\* uid selects a row of the users table
SelectUser(uid, target) ==
    /\ SelectAllowed(users, uid,
           [table |-> "users", organization_id |-> users[target].organization_id])
    /\ lastRead' = [user |-> uid, table |-> "users",
                    organization_id |-> users[target].organization_id,
                    client_id |-> "none"]
    /\ UNCHANGED users
    /\ UNCHANGED rlsOthers

NextRls ==
    \/ \E uid, target \in UserIds,
          newRow \in [organization_id : OrgIds, role : Roles] :
           UpdateUser(uid, target, newRow)
    \/ \E uid \in UserIds, row \in DataRows : SelectRow(uid, row)
    \/ \E uid, target \in UserIds : SelectUser(uid, target)

\* ------------------------------------------------------------------------
\* Routes (src/unnamed/part_008, App) and the sidebar
\* (src/src/components/DashboardLayout.tsx)
\* ------------------------------------------------------------------------

PublicRoutes == {"/login", "/register"}

\* routes wrapped in <ProtectedRoute> without allowedRoles
OpenRoutes == {"/dashboard", "/my-requests", "/my-documents", "/my-tasks",
               "/notifications"}

\* routes with allowedRoles super_admin, admin, manager, team_member
TeamRoutes == {"/templates", "/tasks", "/requests", "/documents",
               "/approvals", "/clients", "/reminders", "/voice-calls"}

\* routes with allowedRoles super_admin, admin
SystemRoutes == {"/integrations", "/webhooks", "/ai-verification",
                 "/upload-sessions", "/shareable-links", "/users",
                 "/audit-trail", "/document-matches", "/organizations"}

Paths == PublicRoutes \cup OpenRoutes \cup TeamRoutes \cup SystemRoutes

\* a route table that lets every role in everywhere
allowedRolesAny(path) == Roles

\* the allowedRoles of the route's <ProtectedRoute> (every role when the
\* prop is absent)
allowedRoles(path) ==
    IF path \in TeamRoutes
    THEN {"super_admin", "admin", "manager", "team_member"}
    ELSE IF path \in SystemRoutes THEN {"super_admin", "admin"}
    ELSE Roles

\* <ProtectedRoute allowedRoles>: what is shown for path to a visitor;
\* signed out it redirects to /login, with a role outside allowedRoles to
\* /dashboard
ProtectedRoute(role, path) ==
    IF role = NULL THEN "/login"
    ELSE IF role \in allowedRoles(path) THEN path
    ELSE "/dashboard"

\* DashboardLayout
isAdmin(role) == role \in {"super_admin", "admin", "manager", "team_member"}
isSuperAdmin(role) == role = "super_admin" \/ role = "admin"

clientNavigation == {"/dashboard", "/my-requests", "/my-documents",
                     "/my-tasks", "/notifications"}
adminCoreNavigation == {"/dashboard", "/templates", "/tasks", "/requests",
                        "/documents", "/approvals", "/clients"}
adminAutomationNavigation == {"/reminders", "/voice-calls", "/notifications"}
systemNavigation == {"/integrations", "/webhooks", "/ai-verification",
                     "/upload-sessions", "/shareable-links",
                     "/document-matches"}
systemManagementNavigation == {"/users", "/organizations", "/audit-trail"}

\* the links the sidebar renders for a role
NavLinks(role) ==
    IF ~isAdmin(role) THEN clientNavigation
    ELSE adminCoreNavigation \cup adminAutomationNavigation
         \cup (IF isSuperAdmin(role)
               THEN systemNavigation \cup systemManagementNavigation
               ELSE {})

\* the router resolves a path
Open(path) ==
    LET shown == IF path \in PublicRoutes THEN path
                 ELSE ProtectedRoute(session, path)
    IN /\ location' = shown
       /\ blocked' = IF shown = path THEN "none" ELSE path

\* a user signs in and lands on the dashboard
signIn(role) ==
    /\ session = NULL
    /\ location \in PublicRoutes
    /\ session' = role
    /\ location' = "/dashboard"
    /\ blocked' = "none"
    /\ UNCHANGED navOthers

\* DashboardLayout.handleSignOut
handleSignOut ==
    /\ session # NULL
    /\ location \notin PublicRoutes
    /\ session' = NULL
    /\ location' = "/login"
    /\ blocked' = "none"
    /\ UNCHANGED navOthers

\* a sidebar link is clicked
ClickLink(path) ==
    /\ session # NULL
    /\ location \notin PublicRoutes
    /\ path \in NavLinks(session)
    /\ Open(path)
    /\ UNCHANGED session
    /\ UNCHANGED navOthers

\* a path is typed into the address bar
EnterUrl(path) ==
    /\ Open(path)
    /\ UNCHANGED session
    /\ UNCHANGED navOthers

NextRoutes ==
    \/ \E role \in Roles : signIn(role)
    \/ handleSignOut
    \/ \E path \in Paths : ClickLink(path)
    \/ \E path \in Paths : EnterUrl(path)

\* ------------------------------------------------------------------------
\* Dashboard (src/src/pages/Dashboard.tsx): loadStats
\* ------------------------------------------------------------------------

\* useState<Stats>: every count 0
InitialStats == [pendingRequests |-> 0, completedRequests |-> 0,
                 overdueItems |-> 0]

RequestStatuses == {"draft", "sent", "in_progress", "completed", "cancelled"}

\* the rows the dashboard query returns
DashKeys == {1, 2}

\* due_date of a request: none, day 3 or day 8
DueDates == {[has_due |-> FALSE, due_date |-> 0],
             [has_due |-> TRUE, due_date |-> 3],
             [has_due |-> TRUE, due_date |-> 8]}

\* requestsData.data?.filter((r) => r.status === ...).length || 0
CountStatus(rows, statuses) ==
    Cardinality({k \in DOMAIN rows : rows[k].status \in statuses})

\* the three request counts loadStats computes, the same in the client and
\* the team branch: each is a filter on status alone
computeStats(rows) ==
    [pendingRequests |-> CountStatus(rows, {"sent", "in_progress"}),
     completedRequests |-> CountStatus(rows, {"completed"}),
     overdueItems |-> CountStatus(rows, {"in_progress"})]

\* loadStats: without a profile it returns; a failed query is logged and
\* the stats stay; otherwise the stats are set from the rows
loadStats(hasProfile, fails) ==
    /\ IF hasProfile /\ ~fails
       THEN /\ stats' = computeStats(dashRequests)
            /\ dashLoaded' = TRUE
       ELSE UNCHANGED <<stats, dashLoaded>>
    /\ UNCHANGED <<dashRequests, dashToday>>
    /\ UNCHANGED dashOthers

\* a request's status or due date changes between two loads
ChangeRequest(k, status, due) ==
    /\ dashRequests' = [dashRequests EXCEPT
                            ![k] = [status |-> status, has_due |-> due.has_due,
                                    due_date |-> due.due_date]]
    /\ dashLoaded' = FALSE
    /\ UNCHANGED <<stats, dashToday>>
    /\ UNCHANGED dashOthers

NextDashboard ==
    \/ \E hasProfile, fails \in BOOLEAN : loadStats(hasProfile, fails)
    \/ \E k \in DashKeys, status \in RequestStatuses, due \in DueDates :
          ChangeRequest(k, status, due)

\* ------------------------------------------------------------------------
\* Client creation (src/src/pages/Clients.tsx, handleCreateClient; the same
\* handler is in src/unnamed/part_003) with the INSERT and UPDATE policies
\* on users and the default-folder trigger (src/unnamed/part_010)
\* ------------------------------------------------------------------------

\* the id auth.users gives the n-th account
NewClientIds == <<"c1", "c2">>

\* the signed-in team user's id
CreatorId == "t1"

NoCreator == [role |-> "none", organization_id |-> NULL]
NoDeployment == [autoConfirm |-> FALSE, authTrigger |-> FALSE]
NoClientResult == [alert |-> "none", id |-> "none", path |-> "none"]

\* folder_types of create_default_client_folders
folder_types == <<"kyc", "legal", "finance", "hr">>

\* create_default_client_folders, AFTER INSERT ON users FOR EACH ROW: four
\* folders when NEW.role = 'client' and NEW.organization_id is not null
create_default_client_folders(folders, id, row) ==
    IF row.role = "client" /\ row.organization_id # NULL
    THEN folders \o [i \in 1..Len(folder_types) |->
                        [organization_id |-> row.organization_id,
                         client_id |-> id,
                         folder_type |-> folder_types[i],
                         sort_order |-> i]]
    ELSE folders

\* SELECT organization_id FROM users WHERE id = auth.uid()
\*   AND role IN ('super_admin', 'admin', 'manager')
\*   AND organization_id IS NOT NULL
ManagerOrgs(tbl, uid) ==
    IF uid \in DOMAIN tbl
    THEN IF tbl[uid].role \in ManagerRoles /\ tbl[uid].organization_id # NULL
         THEN {tbl[uid].organization_id}
         ELSE {}
    ELSE {}

\* "Admins and managers can create client users", the one INSERT policy on
\* users, and the primary key
InsertUserAllowed(tbl, uid, id, row) ==
    /\ id \notin DOMAIN tbl
    /\ row.role = "client"
    /\ row.organization_id \in ManagerOrgs(tbl, uid)

\* USING of the two UPDATE policies on users: the rows uid may update
UpdateUserVisible(tbl, uid, id) ==
    /\ id \in DOMAIN tbl
    /\ \/ id = uid
       \/ tbl[id].organization_id \in ManagerOrgs(tbl, uid)

\* WITH CHECK of the two UPDATE policies on users
UpdateUserChecked(tbl, uid, id, row) ==
    \/ id = uid
    \/ row.organization_id \in ManagerOrgs(tbl, uid)

\* supabase.from('users').update(row).eq('id', id): a row the policies hide
\* is not updated and no error is returned
updateUsers(tbl, uid, id, row, fails) ==
    IF fails THEN [error |-> TRUE, users |-> tbl]
    ELSE IF ~UpdateUserVisible(tbl, uid, id) THEN [error |-> FALSE, users |-> tbl]
    ELSE IF ~UpdateUserChecked(tbl, uid, id, row)
    THEN [error |-> TRUE, users |-> tbl]
    ELSE [error |-> FALSE, users |-> [tbl EXCEPT ![id] = row]]

\* supabase.from('users').insert(row), with the trigger it fires
insertUsers(tbl, folders, uid, id, row, fails) ==
    IF fails \/ ~InsertUserAllowed(tbl, uid, id, row)
    THEN [error |-> TRUE, users |-> tbl, folders |-> folders]
    ELSE [error |-> FALSE, users |-> tbl @@ (id :> row),
          folders |-> create_default_client_folders(folders, id, row)]

\* supabase.auth.signUp: the account is created; where sign-up inserts a
\* users row, that row knows no organization (the sign-up data holds
\* full_name only); where sign-up returns a session, the client is signed in
\* as the new account
signUp(tbl, folders, uid, id) ==
    LET row == [role |-> "client", organization_id |-> NULL]
    IN [users |-> IF deployment.authTrigger THEN tbl @@ (id :> row) ELSE tbl,
        folders |-> IF deployment.authTrigger
                    THEN create_default_client_folders(folders, id, row)
                    ELSE folders,
        uid |-> IF deployment.autoConfirm THEN id ELSE uid]

\* rpc('create_client_user') when the function exists and returns the new
\* id: the account and its users row, inserted with role client and
\* p_organization_id
create_client_user(tbl, folders, id, org) ==
    LET row == [role |-> "client", organization_id |-> org]
    IN [users |-> tbl @@ (id :> row),
        folders |-> create_default_client_folders(folders, id, row)]

\* handleCreateClient
handleCreateClient(filled, rpc, auth, insertFails, updateFails) ==
    /\ Cardinality(authUsers) < MaxClients
    /\ LET id == NewClientIds[Cardinality(authUsers) + 1]
           org == creator.organization_id
           row == [role |-> "client", organization_id |-> org]
       IN IF ~filled \/ org = NULL
          THEN /\ clientResult' = [alert |-> "required", id |-> "none",
                                   path |-> "none"]
               /\ UNCHANGED <<authUsers, userRows, client_folders, authUid>>
          ELSE IF rpc = "created"
          THEN LET made == create_client_user(userRows, client_folders, id, org)
               IN /\ authUsers' = authUsers \cup {id}
                  /\ userRows' = made.users
                  /\ client_folders' = made.folders
                  /\ clientResult' = [alert |-> "success", id |-> id,
                                      path |-> "rpc"]
                  /\ UNCHANGED authUid
          ELSE IF auth # "ok"
          THEN /\ clientResult' = [alert |-> "error", id |-> "none",
                                   path |-> "signUp"]
               /\ UNCHANGED <<authUsers, userRows, client_folders, authUid>>
          ELSE LET signed == signUp(userRows, client_folders, authUid, id)
                   ins == insertUsers(signed.users, signed.folders, signed.uid,
                                      id, row, insertFails)
                   upd == updateUsers(ins.users, signed.uid, id, row,
                                      updateFails)
               IN /\ authUsers' = authUsers \cup {id}
                  /\ authUid' = signed.uid
                  /\ client_folders' = ins.folders
                  /\ IF ~ins.error
                     THEN /\ userRows' = ins.users
                          /\ clientResult' = [alert |-> "success", id |-> id,
                                              path |-> "insert"]
                     ELSE /\ userRows' = upd.users
                          /\ clientResult' =
                               [alert |-> IF upd.error THEN "error"
                                          ELSE "success",
                                id |-> id, path |-> "update"]
    /\ UNCHANGED <<creator, deployment>>
    /\ UNCHANGED clientOthers

\* the team user signs in again on the page
signInCreator ==
    /\ authUid # CreatorId
    /\ authUid' = CreatorId
    /\ UNCHANGED <<authUsers, userRows, client_folders, creator, deployment,
                   clientResult>>
    /\ UNCHANGED clientOthers

NextClients ==
    \/ \E filled, insertFails, updateFails \in BOOLEAN,
          rpc \in {"created", "error", "throws"},
          auth \in {"ok", "error", "no_user"} :
           handleCreateClient(filled, rpc, auth, insertFails, updateFails)
    \/ signInCreator

\* ------------------------------------------------------------------------
\* Tasks page (src/src/pages/Tasks.tsx): loadTasks and the loading flag
\* ------------------------------------------------------------------------

TaskFilters == {"all", "one_time", "recurring"}

\* the organization's rows of the tasks table: id -> task_type
TaskRows == [k1 |-> "one_time", k2 |-> "recurring"]

\* .from('tasks').select('*').eq('organization_id', ...) and, unless the
\* filter is 'all', .eq('task_type', filter)
TasksQuery(f) ==
    {k \in DOMAIN TaskRows : f = "all" \/ TaskRows[k] = f}

\* loadTasks up to its await: without profile?.organization_id it returns
\* (before the try block, so its finally does not run); otherwise the query
\* is sent
loadTasks(p, f, queries) ==
    IF p # "org" THEN queries ELSE Append(queries, [filter |-> f])

\* the first run of useEffect(() => { loadTasks() }, [profile, filter])
MountTasks ==
    /\ ~tasksMounted
    /\ tasksMounted' = TRUE
    /\ tasksQueries' = loadTasks(tasksProfile, tasksFilter, tasksQueries)
    /\ UNCHANGED <<tasksProfile, tasksFilter, tasksLoading, taskList>>
    /\ UNCHANGED tasksPageOthers

\* the auth context delivers the profile; the effect runs again
ProfileLoaded(p) ==
    /\ tasksMounted
    /\ tasksProfile = "none"
    /\ tasksProfile' = p
    /\ tasksQueries' = loadTasks(p, tasksFilter, tasksQueries)
    /\ UNCHANGED <<tasksMounted, tasksFilter, tasksLoading, taskList>>
    /\ UNCHANGED tasksPageOthers

\* setFilter(f) from a filter button; the effect runs again
setFilter(f) ==
    /\ tasksMounted
    /\ ~tasksLoading
    /\ f # tasksFilter
    /\ Len(tasksQueries) < MaxQueries
    /\ tasksFilter' = f
    /\ tasksQueries' = loadTasks(tasksProfile, f, tasksQueries)
    /\ UNCHANGED <<tasksProfile, tasksMounted, tasksLoading, taskList>>
    /\ UNCHANGED tasksPageOthers

\* loadTasks after its await: setTasks(data) unless the query failed (the
\* catch block logs), then finally setLoading(false)
LoadTasksDone(i, fails) ==
    /\ i \in DOMAIN tasksQueries
    /\ taskList' = IF fails THEN taskList
                   ELSE TasksQuery(tasksQueries[i].filter)
    /\ tasksLoading' = FALSE
    /\ tasksQueries' = SubSeq(tasksQueries, 1, i - 1)
                          \o SubSeq(tasksQueries, i + 1, Len(tasksQueries))
    /\ UNCHANGED <<tasksProfile, tasksMounted, tasksFilter>>
    /\ UNCHANGED tasksPageOthers

NextTasksPage ==
    \/ MountTasks
    \/ \E p \in {"no_org", "org"} : ProfileLoaded(p)
    \/ \E f \in TaskFilters : setFilter(f)
    \/ \E i \in 1..MaxQueries, fails \in BOOLEAN : LoadTasksDone(i, fails)

\* ------------------------------------------------------------------------
\* Activate/deactivate toggles (src/unnamed/part_005,
\* toggleOrganizationStatus; toggleUserStatus, toggleIntegration and
\* toggleWebhook have the same body on their tables)
\* ------------------------------------------------------------------------

\* .update({ is_active: value }).eq('id', id)
UpdateIsActive(tbl, id, value) == [tbl EXCEPT ![id] = value]

\* toggleOrganizationStatus(id, currentStatus) up to its await:
\* currentStatus is the is_active of the row as the page displays it, and
\* the update carries !currentStatus
toggleOrganizationStatus(s, id) ==
    /\ Len(toggleCalls) < MaxToggles
    /\ toggleCalls' = Append(toggleCalls,
           [sess |-> s, id |-> id, currentStatus |-> orgShown[s][id],
            is_active |-> ~orgShown[s][id], phase |-> "sent"])
    /\ UNCHANGED <<organizations, orgShown, orgLoads>>
    /\ UNCHANGED toggleOthers

\* the database runs the update of call i, or the request fails; after a
\* success the handler starts loadOrganizations(), after an error it logs
ToggleUpdate(i, fails) ==
    /\ i \in DOMAIN toggleCalls
    /\ toggleCalls[i].phase = "sent"
    /\ toggleCalls' = [toggleCalls EXCEPT
                          ![i].phase = IF fails THEN "error" ELSE "done"]
    /\ organizations' = IF fails THEN organizations
                        ELSE UpdateIsActive(organizations, toggleCalls[i].id,
                                            toggleCalls[i].is_active)
    /\ orgLoads' = IF fails THEN orgLoads
                   ELSE [orgLoads EXCEPT ![toggleCalls[i].sess] = @ + 1]
    /\ UNCHANGED orgShown
    /\ UNCHANGED toggleOthers

\* loadOrganizations: select('*') and setOrganizations(data); on an error
\* the list stays as it is
loadOrganizations(s, fails) ==
    /\ orgLoads[s] > 0
    /\ orgLoads' = [orgLoads EXCEPT ![s] = @ - 1]
    /\ orgShown' = IF fails THEN orgShown
                   ELSE [orgShown EXCEPT ![s] = organizations]
    /\ UNCHANGED <<organizations, toggleCalls>>
    /\ UNCHANGED toggleOthers

NextToggles ==
    \/ \E s \in Sessions, id \in OrgIds : toggleOrganizationStatus(s, id)
    \/ \E i \in 1..MaxToggles, fails \in BOOLEAN : ToggleUpdate(i, fails)
    \/ \E s \in Sessions, fails \in BOOLEAN : loadOrganizations(s, fails)

\* ------------------------------------------------------------------------
\* Specifications: one per part; the other parts stay as they start
\* ------------------------------------------------------------------------

vars == <<apprVars, reqVars, remVars, occVars, formVars, tplVars, calcVars,
          itemVars, genVars, rlsVars, navVars, dashVars, clientVars,
          tasksPageVars, toggleVars>>

\* the approvals page with nothing on it and nobody signed in
IdleApprovals ==
    /\ approvals_tbl = [id \in ApprovalIds |-> PendingRow]
    /\ profile = [s \in Sessions |-> NULL]
    /\ approvals = [s \in Sessions |-> {}]
    /\ processingId = [s \in Sessions |-> NULL]
    /\ calls = <<>>
    /\ loadsSent = [s \in Sessions |-> 0]
    /\ loadsBack = [s \in Sessions |-> {}]
    /\ now = 1

\* no data request stored
IdleRequests ==
    /\ data_requests = << >>
    /\ request_checklist_items = << >>

\* no reminder scheduled
IdleReminders ==
    /\ reminders = << >>
    /\ attempts = << >>
    /\ inFlight = {}
    /\ escalations = << >>

\* the recurring tasks due on day 1, no occurrence generated, no sweep running
IdleOccurrences ==
    /\ tasks = [t \in TaskIds |-> 1]
    /\ task_occurrences = << >>
    /\ sweeps = [w \in SweepIds |-> IdleSweep]
    /\ today = 1

\* the create-request form not yet submitted
IdleForm == createLog = << >>

\* no template stored, the create-template form as it opens
IdleTemplates ==
    /\ templates = << >>
    /\ tplForm = InitialTemplateForm

\* the schedule calculator not called
IdleCalculator ==
    /\ calcRule = NoRule
    /\ calcAfter = 0
    /\ calcResult = NotCalled

\* one checklist item as created, nothing attempted on it
IdleItem ==
    /\ item = NewItemRow(TRUE)
    /\ submitted_at = NULL
    /\ receivedInCycle = FALSE
    /\ itemAttempt = NoAttempt
    /\ itemReminders = << >>

\* no recurring task for the calendar generator
IdleGenerator ==
    /\ genTask = [rule |-> NoRule, sla |-> DefaultSlaDays, has_next |-> FALSE, next_run_date |-> 0]
    /\ genOccurrences = << >>
    /\ genToday = 1

\* the users as they were placed, nothing read
IdleRls ==
    /\ users = [u \in UserIds |-> [organization_id |-> PlacedOrg(u), role |-> "client"]]
    /\ lastRead = NoRead

\* signed out, on the login page
IdleRoutes ==
    /\ session = NULL
    /\ location = "/login"
    /\ blocked = "none"

\* the dashboard not mounted
IdleDashboard ==
    /\ dashRequests = << >>
    /\ dashToday = 0
    /\ stats = InitialStats
    /\ dashLoaded = FALSE

\* the clients page not mounted
IdleClients ==
    /\ authUsers = {}
    /\ userRows = << >>
    /\ client_folders = << >>
    /\ creator = NoCreator
    /\ authUid = NULL
    /\ deployment = NoDeployment
    /\ clientResult = NoClientResult

\* the tasks page not mounted
IdleTasksPage ==
    /\ tasksProfile = "none"
    /\ tasksMounted = FALSE
    /\ tasksFilter = "all"
    /\ tasksLoading = TRUE
    /\ taskList = {}
    /\ tasksQueries = << >>

\* the organizations page not mounted
IdleToggles ==
    /\ organizations = << >>
    /\ orgShown = << >>
    /\ toggleCalls = << >>
    /\ orgLoads = << >>

InitApprovals ==
    /\ approvals_tbl = [id \in ApprovalIds |-> PendingRow]
    /\ profile \in [Sessions -> {NULL, "loaded"}]
    /\ approvals = [s \in Sessions |-> {}]
    /\ processingId = [s \in Sessions |-> NULL]
    /\ calls = <<>>
    /\ loadsSent = [s \in Sessions |-> IF profile[s] = NULL THEN 0 ELSE 1]
    /\ loadsBack = [s \in Sessions |-> {}]
    /\ now = 1
    /\ IdleRequests
    /\ IdleReminders
    /\ IdleOccurrences
    /\ IdleForm
    /\ IdleTemplates
    /\ IdleCalculator
    /\ IdleItem
    /\ IdleGenerator
    /\ IdleRls
    /\ IdleRoutes
    /\ IdleDashboard
    /\ IdleClients
    /\ IdleTasksPage
    /\ IdleToggles

InitRequests ==
    /\ data_requests = << >>
    /\ request_checklist_items = << >>
    /\ IdleApprovals
    /\ IdleReminders
    /\ IdleOccurrences
    /\ IdleForm
    /\ IdleTemplates
    /\ IdleCalculator
    /\ IdleItem
    /\ IdleGenerator
    /\ IdleRls
    /\ IdleRoutes
    /\ IdleDashboard
    /\ IdleClients
    /\ IdleTasksPage
    /\ IdleToggles

InitReminders ==
    /\ reminders = << >>
    /\ attempts = << >>
    /\ inFlight = {}
    /\ escalations = << >>
    /\ IdleApprovals
    /\ IdleRequests
    /\ IdleOccurrences
    /\ IdleForm
    /\ IdleTemplates
    /\ IdleCalculator
    /\ IdleItem
    /\ IdleGenerator
    /\ IdleRls
    /\ IdleRoutes
    /\ IdleDashboard
    /\ IdleClients
    /\ IdleTasksPage
    /\ IdleToggles

InitOccurrences ==
    /\ tasks = [t \in TaskIds |-> 1]
    /\ task_occurrences = << >>
    /\ sweeps = [w \in SweepIds |-> IdleSweep]
    /\ today = 1
    /\ IdleApprovals
    /\ IdleRequests
    /\ IdleReminders
    /\ IdleForm
    /\ IdleTemplates
    /\ IdleCalculator
    /\ IdleItem
    /\ IdleGenerator
    /\ IdleRls
    /\ IdleRoutes
    /\ IdleDashboard
    /\ IdleClients
    /\ IdleTasksPage
    /\ IdleToggles

InitForm ==
    /\ createLog = << >>
    /\ data_requests = << >>
    /\ request_checklist_items = << >>
    /\ IdleApprovals
    /\ IdleReminders
    /\ IdleOccurrences
    /\ IdleTemplates
    /\ IdleCalculator
    /\ IdleItem
    /\ IdleGenerator
    /\ IdleRls
    /\ IdleRoutes
    /\ IdleDashboard
    /\ IdleClients
    /\ IdleTasksPage
    /\ IdleToggles

InitTemplates ==
    /\ templates = << >>
    /\ tplForm = InitialTemplateForm
    /\ IdleApprovals
    /\ IdleRequests
    /\ IdleReminders
    /\ IdleOccurrences
    /\ IdleForm
    /\ IdleCalculator
    /\ IdleItem
    /\ IdleGenerator
    /\ IdleRls
    /\ IdleRoutes
    /\ IdleDashboard
    /\ IdleClients
    /\ IdleTasksPage
    /\ IdleToggles

InitCalculator ==
    /\ calcRule \in CalcRules
    /\ calcAfter = 0
    /\ calcResult = NotCalled
    /\ IdleApprovals
    /\ IdleRequests
    /\ IdleReminders
    /\ IdleOccurrences
    /\ IdleForm
    /\ IdleTemplates
    /\ IdleItem
    /\ IdleGenerator
    /\ IdleRls
    /\ IdleRoutes
    /\ IdleDashboard
    /\ IdleClients
    /\ IdleTasksPage
    /\ IdleToggles

\* the request was just sent: the item is not_received and its first
\* reminder is scheduled
InitItem ==
    /\ item \in {NewItemRow(m) : m \in BOOLEAN}
    /\ submitted_at = NULL
    /\ receivedInCycle = FALSE
    /\ itemAttempt = NoAttempt
    /\ itemReminders \in {<<NewReminderRow(n)>> : n \in 1..MaxRetriesCap}
    /\ IdleApprovals
    /\ IdleRequests
    /\ IdleReminders
    /\ IdleOccurrences
    /\ IdleForm
    /\ IdleTemplates
    /\ IdleCalculator
    /\ IdleGenerator
    /\ IdleRls
    /\ IdleRoutes
    /\ IdleDashboard
    /\ IdleClients
    /\ IdleTasksPage
    /\ IdleToggles

\* a recurring task on 2024-01-01, its first run due on its start date
InitGenerator ==
    /\ genTask \in {[rule |-> rl, sla |-> sla, has_next |-> TRUE,
                     next_run_date |-> rl.start_date] :
                        rl \in GenRules, sla \in SlaChoices}
    /\ genOccurrences = << >>
    /\ genToday = 1
    /\ IdleApprovals
    /\ IdleRequests
    /\ IdleReminders
    /\ IdleOccurrences
    /\ IdleForm
    /\ IdleTemplates
    /\ IdleCalculator
    /\ IdleItem
    /\ IdleRls
    /\ IdleRoutes
    /\ IdleDashboard
    /\ IdleClients
    /\ IdleTasksPage
    /\ IdleToggles

\* every user in the organization it was placed in, with any role
InitRls ==
    /\ users \in {[u \in UserIds |->
                     [organization_id |-> PlacedOrg(u), role |-> rl[u]]] :
                        rl \in [UserIds -> Roles]}
    /\ lastRead = NoRead
    /\ IdleApprovals
    /\ IdleRequests
    /\ IdleReminders
    /\ IdleOccurrences
    /\ IdleForm
    /\ IdleTemplates
    /\ IdleCalculator
    /\ IdleItem
    /\ IdleGenerator
    /\ IdleRoutes
    /\ IdleDashboard
    /\ IdleClients
    /\ IdleTasksPage
    /\ IdleToggles

InitRoutes ==
    /\ session = NULL
    /\ location = "/login"
    /\ blocked = "none"
    /\ IdleApprovals
    /\ IdleRequests
    /\ IdleReminders
    /\ IdleOccurrences
    /\ IdleForm
    /\ IdleTemplates
    /\ IdleCalculator
    /\ IdleItem
    /\ IdleGenerator
    /\ IdleRls
    /\ IdleDashboard
    /\ IdleClients
    /\ IdleTasksPage
    /\ IdleToggles

\* two requests in any status, with or without a due date, on day 5
InitDashboard ==
    /\ dashRequests \in
           [DashKeys -> {[status |-> st, has_due |-> due.has_due,
                      due_date |-> due.due_date] :
                         st \in RequestStatuses, due \in DueDates}]
    /\ dashToday = 5
    /\ stats = InitialStats
    /\ dashLoaded = FALSE
    /\ IdleApprovals
    /\ IdleRequests
    /\ IdleReminders
    /\ IdleOccurrences
    /\ IdleForm
    /\ IdleTemplates
    /\ IdleCalculator
    /\ IdleItem
    /\ IdleGenerator
    /\ IdleRls
    /\ IdleRoutes
    /\ IdleClients
    /\ IdleTasksPage
    /\ IdleToggles

\* a team user of organization o1 (or without organization) on the clients
\* page, the users table holding that user's row
InitClients ==
    /\ authUsers = {}
    /\ creator \in [role : TeamRoles, organization_id : {"o1", NULL}]
    /\ userRows = (CreatorId :> creator)
    /\ client_folders = << >>
    /\ authUid = CreatorId
    /\ deployment \in [autoConfirm : BOOLEAN, authTrigger : BOOLEAN]
    /\ clientResult = NoClientResult
    /\ IdleApprovals
    /\ IdleRequests
    /\ IdleReminders
    /\ IdleOccurrences
    /\ IdleForm
    /\ IdleTemplates
    /\ IdleCalculator
    /\ IdleItem
    /\ IdleGenerator
    /\ IdleRls
    /\ IdleRoutes
    /\ IdleDashboard
    /\ IdleTasksPage
    /\ IdleToggles

\* the Tasks component constructed (loading true, filter 'all'), the
\* profile not yet, or already, delivered
InitTasksPage ==
    /\ tasksProfile \in {"none", "no_org", "org"}
    /\ tasksMounted = FALSE
    /\ tasksFilter = "all"
    /\ tasksLoading = TRUE
    /\ taskList = {}
    /\ tasksQueries = << >>
    /\ IdleApprovals
    /\ IdleRequests
    /\ IdleReminders
    /\ IdleOccurrences
    /\ IdleForm
    /\ IdleTemplates
    /\ IdleCalculator
    /\ IdleItem
    /\ IdleGenerator
    /\ IdleRls
    /\ IdleRoutes
    /\ IdleDashboard
    /\ IdleClients
    /\ IdleToggles

\* two sessions with the Organizations page loaded: both display the
\* stored flags
InitToggles ==
    /\ organizations \in [OrgIds -> BOOLEAN]
    /\ orgShown = [s \in Sessions |-> organizations]
    /\ toggleCalls = << >>
    /\ orgLoads = [s \in Sessions |-> 0]
    /\ IdleApprovals
    /\ IdleRequests
    /\ IdleReminders
    /\ IdleOccurrences
    /\ IdleForm
    /\ IdleTemplates
    /\ IdleCalculator
    /\ IdleItem
    /\ IdleGenerator
    /\ IdleRls
    /\ IdleRoutes
    /\ IdleDashboard
    /\ IdleClients
    /\ IdleTasksPage

SpecApprovals == InitApprovals /\ [][NextApprovals]_vars

SpecRequests == InitRequests /\ [][NextRequests]_vars

SpecReminders == InitReminders /\ [][NextReminders]_vars

SpecOccurrences == InitOccurrences /\ [][NextOccurrences]_vars

SpecForm == InitForm /\ [][NextForm]_vars

SpecTemplates == InitTemplates /\ [][NextTemplates]_vars

SpecCalculator == InitCalculator /\ [][NextCalculator]_vars

SpecItem == InitItem /\ [][NextItem]_vars

SpecGenerator == InitGenerator /\ [][NextGenerator]_vars

SpecRls == InitRls /\ [][NextRls]_vars

SpecRoutes == InitRoutes /\ [][NextRoutes]_vars

SpecDashboard == InitDashboard /\ [][NextDashboard]_vars

SpecClients == InitClients /\ [][NextClients]_vars

SpecToggles == InitToggles /\ [][NextToggles]_vars

\* the Tasks page with React running every effect, the auth context
\* delivering the profile and every query answered
SpecTasksPageFair ==
    /\ InitTasksPage
    /\ [][NextTasksPage]_vars
    /\ WF_vars(MountTasks)
    /\ WF_vars(\E p \in {"no_org", "org"} : ProfileLoaded(p))
    /\ WF_vars(\E i \in 1..MaxQueries, fails \in BOOLEAN : LoadTasksDone(i, fails))

\* ------------------------------------------------------------------------
\* Approval workflow: properties
\* ------------------------------------------------------------------------

\* calls i and j are requests on the same Approval that were both in flight
\* at once: both have been answered and neither handler has resumed
Overlapping(i, j) ==
    /\ i # j
    /\ calls[i].id = calls[j].id
    /\ calls[i].phase = "replied"
    /\ calls[j].phase = "replied"

\* the database step of call i: its request is answered in this step
Executes(i) ==
    /\ calls[i].phase = "sent"
    /\ calls'[i].phase = "replied"

ReviewFields(row) == <<row.action, row.remarks, row.reviewed_at, row.reviewer_id>>

\* C1: of two approve() calls issued concurrently on the same pending
\* Approval, exactly one succeeds and the other raises AlreadyReviewedError
\* (requests the database itself failed are left out).
C1_ExactlyOneApproveSucceeds ==
    \A i, j \in DOMAIN calls :
        (/\ Overlapping(i, j)
         /\ calls[i].kind = "approve" /\ calls[j].kind = "approve"
         /\ calls[i].pendingAtIssue /\ calls[j].pendingAtIssue
         /\ calls[i].result # "db_error" /\ calls[j].result # "db_error")
        => \/ calls[i].result = "ok" /\ calls[j].result = "AlreadyReviewedError"
           \/ calls[j].result = "ok" /\ calls[i].result = "AlreadyReviewedError"

\* C2: approve on an Approval whose action is already set fails with
\* AlreadyReviewedError and leaves action, reviewed_at and reviewer_id as
\* they were; the fields are written only when action was null.
C2_ApproveOnlyWhenPending ==
    [][\A i \in DOMAIN calls :
          (/\ Executes(i)
           /\ calls[i].kind = "approve"
           /\ approvals_tbl[calls[i].id].action # NULL
           /\ calls'[i].result # "db_error")
          => /\ calls'[i].result = "AlreadyReviewedError"
             /\ approvals_tbl'[calls[i].id] = approvals_tbl[calls[i].id]]_vars

\* C3: in every reachable state of an Approval, action, reviewed_at and
\* reviewer_id are all three null (pending) or all three set.
C3_ReviewFieldsTogether ==
    \A id \in ApprovalIds :
        LET row == approvals_tbl[id]
        IN \/ row.action = NULL /\ row.reviewed_at = NULL /\ row.reviewer_id = NULL
           \/ row.action # NULL /\ row.reviewed_at # NULL /\ row.reviewer_id # NULL

\* C3 witness: an Approval that was rejected and then approved
C3_RejectedThenApproved ==
    \E id \in ApprovalIds :
        /\ approvals_tbl[id].action = "approved"
        /\ approvals_tbl[id].remarks # NULL

C5_LoserNeverOverwrites ==
    [][\A i, j \in DOMAIN calls :
          (/\ Executes(i)
           /\ i # j /\ calls[j].id = calls[i].id
           /\ calls[j].kind # calls[i].kind
           /\ calls[j].phase = "replied" /\ calls[j].result = "ok"
           /\ calls[i].pendingAtIssue /\ calls[j].pendingAtIssue)
          => /\ ReviewFields(approvals_tbl'[calls[i].id])
                  = ReviewFields(approvals_tbl[calls[i].id])
             /\ calls'[i].result \in {"ConcurrentModificationError", "db_error"}]_vars

\* C25 as stated: while a request on an Approval is in flight (sent, or
\* answered with its handler not yet resumed), the Approve and Reject
\* buttons of that Approval are disabled in the session that sent it.
C25_ButtonsDisabledWhileInFlight ==
    \A i \in DOMAIN calls :
        calls[i].phase \in {"sent", "replied"}
            => ~ButtonEnabled(calls[i].sess, calls[i].id)

\* ------------------------------------------------------------------------
\* Data requests: properties
\* ------------------------------------------------------------------------

\* the request has been sent: it left draft through SendRequest
WasSent(r) == data_requests[r].sent_at # NULL

\* C6 as stated: of every stored request, the status is completed if and only
\* if every mandatory checklist item is approved.
C6_CompletedIffAllMandatoryApproved ==
    \A r \in DOMAIN data_requests :
        data_requests[r].status = "completed"
            <=> AllMandatoryApproved(request_checklist_items[r])

\* C6 amended: of every request that has been sent, after any sequence of
\* item transitions, the status is completed if and only if every mandatory
\* item is approved; a request still in draft is never completed, whatever
\* its items.
C6_SentCompletedIffAllMandatoryApproved ==
    \A r \in DOMAIN data_requests :
        /\ WasSent(r) =>
               (data_requests[r].status = "completed"
                    <=> AllMandatoryApproved(request_checklist_items[r]))
        /\ ~WasSent(r) => data_requests[r].status = "draft"

\* C6 witness: a completed request whose two mandatory items are approved,
\* one of them after a re-request cycle, and whose optional item is not
C6_CompletedWithOpenOptionalItem ==
    \E r \in DOMAIN data_requests :
        LET its == request_checklist_items[r] IN
        /\ data_requests[r].status = "completed"
        /\ \E i, j, k \in DOMAIN its :
              /\ i # j
              /\ its[i].is_mandatory /\ its[i].status = "approved"
              /\ its[j].is_mandatory /\ its[j].status = "approved"
              /\ its[j].cycle > 0
              /\ ~its[k].is_mandatory /\ its[k].status # "approved"

\* C7: a request's status leaves draft only in a step that finds a channel
\* enabled and stamps sent_at (the explicit send); the status becomes sent
\* only from draft; and a request is created in draft.
C7_LeavesDraftOnlyBySend ==
    [][/\ \A r \in DOMAIN data_requests :
             /\ (data_requests[r].status = "draft"
                   /\ data_requests'[r].status # "draft")
                 => /\ AnyChannel(data_requests[r])
                    /\ data_requests[r].sent_at = NULL
                    /\ data_requests'[r].sent_at # NULL
             /\ (data_requests[r].status # "sent"
                   /\ data_requests'[r].status = "sent")
                 => data_requests[r].status = "draft"
       /\ \A r \in DOMAIN data_requests' \ DOMAIN data_requests :
             data_requests'[r].status = "draft"]_vars

\* C7 witness: a request with a channel enabled that the explicit send has
\* taken from draft to sent
C7_SentWithChannel ==
    \E r \in DOMAIN data_requests :
        /\ data_requests[r].status = "sent"
        /\ AnyChannel(data_requests[r])
        /\ data_requests[r].sent_at # NULL

\* ------------------------------------------------------------------------
\* Reminders: properties
\* ------------------------------------------------------------------------

\* cancelled, or failed with the retries used up
Closed(r) ==
    \/ r.status = "cancelled"
    \/ r.status = "failed" /\ r.retry_count = r.max_retries

\* the escalation events emitted for reminder m
EscalationsOf(esc, m) == Cardinality({k \in DOMAIN esc : esc[k] = m})

\* C8: in every step a reminder's retry_count does not decrease and stays
\* at most max_retries; the status becomes failed in exactly the steps where
\* a failed dispatch raises retry_count to max_retries, and a failed
\* reminder stays failed, so the transition happens once.
C8_RetryCountBounded ==
    [][/\ \A m \in DOMAIN reminders' :
             reminders'[m].retry_count <= reminders'[m].max_retries
       /\ \A m \in DOMAIN reminders :
             /\ reminders[m].retry_count <= reminders[m].max_retries
             /\ reminders'[m].retry_count >= reminders[m].retry_count
             /\ (reminders[m].status # "failed"
                   /\ reminders'[m].status = "failed")
                 <=> (/\ reminders'[m].retry_count = reminders[m].retry_count + 1
                      /\ reminders'[m].retry_count = reminders'[m].max_retries)
             /\ reminders[m].status = "failed"
                 => reminders'[m].status = "failed"]_vars

\* C8 witness: a reminder that failed on its last retry, after more than one
C8_FailedAtMaxRetries ==
    \E m \in DOMAIN reminders :
        /\ reminders[m].status = "failed"
        /\ reminders[m].max_retries > 1
        /\ reminders[m].retry_count = reminders[m].max_retries

\* C9: a reminder that is cancelled, or failed with retry_count =
\* max_retries, gets no further dispatch attempt, is not changed and is
\* offered no Retry button; a reminder becomes failed after exactly
\* max_retries attempts (three for max_retries = 3) with exactly one
\* escalation event, and none is emitted otherwise.
C9_NoDispatchAfterClosed ==
    [][/\ \A m \in DOMAIN reminders :
             Closed(reminders[m])
                 => /\ attempts'[m] = attempts[m]
                    /\ reminders'[m] = reminders[m]
                    /\ ~RetryOffered(reminders[m])
       /\ \A m \in DOMAIN reminders' :
             /\ Closed(reminders'[m]) => ~RetryOffered(reminders'[m])
             /\ reminders'[m].status = "failed"
                 => /\ Closed(reminders'[m])
                    /\ attempts'[m] = reminders'[m].max_retries
                    /\ EscalationsOf(escalations', m) = 1
             /\ reminders'[m].status # "failed"
                 => EscalationsOf(escalations', m) = 0]_vars

\* C9 witness: max_retries = 3, three failed dispatches, status failed, one
\* escalation; beside it a reminder cancelled after a failed attempt
C9_ThreeFailuresOneEscalation ==
    \E m, c \in DOMAIN reminders :
        /\ reminders[m].max_retries = 3
        /\ reminders[m].status = "failed"
        /\ attempts[m] = 3
        /\ EscalationsOf(escalations, m) = 1
        /\ reminders[c].status = "cancelled"
        /\ reminders[c].retry_count > 0

\* ------------------------------------------------------------------------
\* Task occurrences: properties
\* ------------------------------------------------------------------------

\* the rows stored for (task, d)
OccurrencesOf(tbl, task, d) ==
    {k \in DOMAIN tbl : tbl[k].task_id = task /\ tbl[k].occurrence_date = d}

\* C10: no two task_occurrences rows share (task_id, occurrence_date); a
\* sweep that has generated for the date it read leaves exactly one row for
\* it; and a sweep whose occurrence is already stored changes nothing and
\* ends as a no-op.
C10_GenerationIdempotent ==
    [][/\ \A i, j \in DOMAIN task_occurrences' :
             (/\ task_occurrences'[i].task_id = task_occurrences'[j].task_id
              /\ task_occurrences'[i].occurrence_date
                     = task_occurrences'[j].occurrence_date)
                 => i = j
       /\ \A w \in SweepIds :
             /\ sweeps'[w].pc = "advance"
                 => Cardinality(OccurrencesOf(task_occurrences',
                        sweeps'[w].task, sweeps'[w].date)) = 1
             /\ (/\ sweeps[w].pc = "insert"
                 /\ sweeps'[w].pc = "advance"
                 /\ OccurrencesOf(task_occurrences,
                        sweeps[w].task, sweeps[w].date) # {})
                 => /\ task_occurrences' = task_occurrences
                    /\ sweeps'[w].result = "noop"]_vars

\* C10 witness: two sweeps read the same task at the same next_run_date;
\* one created the occurrence, the other's insert was a no-op
C10_ConcurrentDuplicateSweep ==
    /\ sweeps["w1"].pc = "advance" /\ sweeps["w2"].pc = "advance"
    /\ sweeps["w1"].task = sweeps["w2"].task
    /\ sweeps["w1"].date = sweeps["w2"].date
    /\ {sweeps["w1"].result, sweeps["w2"].result} = {"created", "noop"}
    /\ Cardinality(OccurrencesOf(task_occurrences,
           sweeps["w1"].task, sweeps["w1"].date)) = 1

\* ------------------------------------------------------------------------
\* Create-request form: properties
\* ------------------------------------------------------------------------

\* C11: no two stored data requests have the same request_number, whatever
\* the clock readings and random draws of the creations, two creations in
\* the same millisecond included.
C11_RequestNumberUnique ==
    \A r1, r2 \in DOMAIN data_requests :
        data_requests[r1].request_number = data_requests[r2].request_number
            => r1 = r2

\* C11 witness: two submissions in the same millisecond generated the same
\* number, the second was refused; a third, 10^6 ms later with another
\* random draw, was stored beside the first
C11_SameMillisecondCollision ==
    /\ Len(createLog) = 3
    /\ createLog[1].ms = createLog[2].ms
    /\ createLog[1].request_number = createLog[2].request_number
    /\ createLog[1].outcome = "created"
    /\ createLog[2].outcome = "alert"
    /\ createLog[3].outcome = "created"
    /\ createLog[3].ms # createLog[1].ms
    /\ Cardinality(DOMAIN data_requests) = 2

\* ------------------------------------------------------------------------
\* Create-template form: properties
\* ------------------------------------------------------------------------

\* C12 as stated: every stored template with task_type recurring carries a
\* schedule frequency, and every one with task_type one_time carries none.
C12_FrequencyIffRecurring ==
    \A k \in DOMAIN templates :
        /\ templates[k].task_type = "recurring"
               => templates[k].schedule_frequency # NULL
        /\ templates[k].task_type = "one_time"
               => templates[k].schedule_frequency = NULL

\* ------------------------------------------------------------------------
\* Schedule calculator: properties
\* ------------------------------------------------------------------------

\* C13: for a rule with end_date set, a date returned by next_occurrence is
\* never after end_date (and is strictly after the reference date); and
\* once a built-in frequency has returned None, it returns None for every
\* later reference date.
C13_NeverAfterEndDate ==
    calcRule.has_end
        => /\ calcResult.kind = "date"
               => /\ calcResult.date <= calcRule.end_date
                  /\ calcResult.date > calcAfter
           /\ (calcResult.kind = "none" /\ calcRule.frequency # "custom")
               => \A later \in CalcDates :
                      later >= calcAfter
                          => next_occurrence(calcRule, later, 0) = None

\* C13 witness: a monthly rule ending 2024-03-15 asked after 2024-02-29:
\* the next date, 2024-03-31, lies after the end, and None is returned
C13_ExhaustedMonthlyRule ==
    /\ calcRule.task_type = "recurring"
    /\ calcRule.frequency = "monthly"
    /\ calcRule.day_rule = NULL
    /\ calcRule.start_date = DayNumber(2024, 1, 31)
    /\ calcRule.has_end
    /\ calcRule.end_date = DayNumber(2024, 3, 15)
    /\ calcAfter = DayNumber(2024, 2, 29)
    /\ calcResult = None
    /\ next_occurrence(calcRule, DayNumber(2024, 2, 1), 0)
           = DateResult(DayNumber(2024, 2, 29))

\* ------------------------------------------------------------------------
\* Checklist item: properties
\* ------------------------------------------------------------------------

\* C14: an attempt to move an item from not_received straight to approved
\* fails with InvalidTransitionError and leaves the item as it was; an item
\* becomes approved only after it was received in the current cycle.
C14_NoDirectApproval ==
    [][/\ (itemAttempt' # itemAttempt
             /\ item.status = "not_received" /\ itemAttempt'.to = "approved")
           => /\ itemAttempt'.result = "InvalidTransitionError"
              /\ item' = item
       /\ itemAttempt'.result = "InvalidTransitionError" => item' = item
       /\ item'.status = "approved"
           => /\ receivedInCycle'
              /\ item.status \in {"received", "under_review", "approved"}]_vars

\* C14 witness: approval was refused on the item while not_received
C14_DirectApprovalRefused ==
    /\ itemAttempt = [from |-> "not_received", to |-> "approved",
                      result |-> "InvalidTransitionError"]
    /\ item.status = "not_received"

\* C15: the step that re-requests an item leaves submitted_at null and adds
\* one reminder that is pending with retry_count 0, whatever retry_count
\* the previous cycle's reminder had reached.
C15_ReRequestStartsFresh ==
    [][(item.status # "re_requested" /\ item'.status = "re_requested")
           => /\ submitted_at' = NULL
              /\ Len(itemReminders') = Len(itemReminders) + 1
              /\ itemReminders'[Len(itemReminders')].retry_count = 0
              /\ itemReminders'[Len(itemReminders')].status = "pending"]_vars

\* C15 witness: a re-requested item whose previous reminder had failed
\* twice or more, with the new cycle's reminder at retry_count 0
C15_ReRequestedAfterRetries ==
    /\ item.status = "re_requested"
    /\ item.cycle > 0
    /\ submitted_at = NULL
    /\ Len(itemReminders) >= 2
    /\ itemReminders[Len(itemReminders) - 1].retry_count >= 2
    /\ itemReminders[Len(itemReminders)].retry_count = 0

\* ------------------------------------------------------------------------
\* Calendar generator: properties
\* ------------------------------------------------------------------------

\* the occurrences stored for date d
GeneratedFor(occs, d) == {k \in DOMAIN occs : occs[k].occurrence_date = d}

\* C16: a generation step adds exactly one occurrence, dated the task's
\* next_run_date and due SLA days later; no date ever has two occurrences;
\* and for the monthly rule on the 1st started 2024-01-01 with SLA 7, the
\* step taken at next_run_date 2024-02-01 yields the occurrence dated
\* 2024-02-01 and due 2024-02-08.
C16_OccurrenceDates ==
    [][/\ genOccurrences' # genOccurrences
           => /\ Len(genOccurrences') = Len(genOccurrences) + 1
              /\ LET row == genOccurrences'[Len(genOccurrences')] IN
                 /\ row.occurrence_date = genTask.next_run_date
                 /\ row.due_date = row.occurrence_date + genTask.sla
                 /\ (/\ genTask.rule.frequency = "monthly"
                     /\ genTask.rule.day_rule = "1st"
                     /\ genTask.sla = 7
                     /\ genTask.next_run_date = DayNumber(2024, 2, 1))
                     => /\ Ymd(row.occurrence_date) = [y |-> 2024, m |-> 2, d |-> 1]
                        /\ Ymd(row.due_date) = [y |-> 2024, m |-> 2, d |-> 8]
       /\ \A k \in DOMAIN genOccurrences' :
              Cardinality(GeneratedFor(genOccurrences',
                  genOccurrences'[k].occurrence_date)) = 1
       /\ (/\ genTask.rule.frequency = "monthly"
           /\ genTask.rule.day_rule = "1st"
           /\ genTask.next_run_date = DayNumber(2024, 1, 1)
           /\ genOccurrences' # genOccurrences)
           => genTask'.next_run_date = DayNumber(2024, 2, 1)]_vars

\* C16 witness: on 2024-02-01 the monthly task holds exactly one occurrence
\* dated 2024-02-01, due 2024-02-08
C16_FebruaryOccurrence ==
    /\ genTask.rule.frequency = "monthly"
    /\ genTask.rule.day_rule = "1st"
    /\ genTask.sla = DefaultSlaDays
    /\ genToday = DayNumber(2024, 2, 1)
    /\ \E k \in DOMAIN genOccurrences :
          /\ Ymd(genOccurrences[k].occurrence_date) = [y |-> 2024, m |-> 2, d |-> 1]
          /\ Ymd(genOccurrences[k].due_date) = [y |-> 2024, m |-> 2, d |-> 8]
          /\ GeneratedFor(genOccurrences, DayNumber(2024, 2, 1)) = {k}

\* ------------------------------------------------------------------------
\* Row level security: properties
\* ------------------------------------------------------------------------

\* C17 as stated: every row a user reads belongs to the organization that
\* user was placed in, or is addressed to that user as client.
C17_ReadsStayInPlacedOrganization ==
    lastRead.user \in UserIds
        => \/ lastRead.organization_id = PlacedOrg(lastRead.user)
           \/ lastRead.client_id = lastRead.user

\* C24 as stated: no update the users policies permit lets a user whose role
\* is client or team_member change their own role or organization_id.
C24_NoSelfPromotion ==
    [][\A uid \in UserIds, newRow \in [organization_id : OrgIds, role : Roles] :
          (users[uid].role \in {"client", "team_member"}
              /\ UpdateUser(uid, uid, newRow))
            => /\ newRow.role = users[uid].role
               /\ newRow.organization_id = users[uid].organization_id]_vars

\* ------------------------------------------------------------------------
\* Routes: properties
\* ------------------------------------------------------------------------

C19_OrganizationsSuperAdminOnly ==
    /\ location = "/organizations" => session = "super_admin"
    /\ (session # NULL /\ location \notin PublicRoutes
          /\ "/organizations" \in NavLinks(session))
           => session = "super_admin"

\* ------------------------------------------------------------------------
\* Dashboard: properties
\* ------------------------------------------------------------------------

\* the request's due date has passed and it is not completed
PastDue(r, day) == r.has_due /\ r.due_date < day /\ r.status # "completed"

\* C20 as stated: after loadStats the overdue count is the number of
\* requests whose due_date has passed without completion; in particular an
\* in_progress request due in the future, or with no due date, is not
\* counted.
C20_OverdueIsPastDue ==
    dashLoaded
        => stats.overdueItems =
               Cardinality({k \in DOMAIN dashRequests :
                               PastDue(dashRequests[k], dashToday)})

\* ------------------------------------------------------------------------
\* Client creation: properties
\* ------------------------------------------------------------------------

\* the folders of a client
FoldersOf(id) == SelectSeq(client_folders, LAMBDA f : f.client_id = id)

C22_NoAccountWithoutRowAfterError ==
    clientResult.alert = "error" => authUsers \subseteq DOMAIN userRows

\* C23 as stated: when 'Client created successfully' is reported, the new
\* client's users row exists with role client and the creator's
\* organization.
C23_SuccessMeansClientRow ==
    clientResult.alert = "success"
        => /\ clientResult.id \in DOMAIN userRows
           /\ userRows[clientResult.id].role = "client"
           /\ userRows[clientResult.id].organization_id
                  = creator.organization_id

\* ------------------------------------------------------------------------
\* Tasks page: properties
\* ------------------------------------------------------------------------

\* C26 as stated: whatever the profile (none, without organization_id, with
\* one) and whether the query fails or succeeds, the Tasks page's loading
\* flag eventually becomes false.
C26_LoadingEventuallyFalse == <>(tasksLoading = FALSE)

\* ------------------------------------------------------------------------
\* Toggles: properties
\* ------------------------------------------------------------------------

\* C27 as stated: every toggle the database executes flips the stored
\* is_active of its row relative to the value stored at that moment, so two
\* toggles issued from two sessions that display the same state leave the
\* flag as it was.
C27_ToggleFlipsStoredFlag ==
    [][\A i \in DOMAIN toggleCalls :
          (toggleCalls[i].phase = "sent" /\ toggleCalls'[i].phase = "done")
            => organizations'[toggleCalls[i].id]
                   = ~organizations[toggleCalls[i].id]]_vars

====
